---- MODULE Spec2Model ----
(***************************************************************************)
(* Session / ban policy / marketplace transaction logic of the marketplace *)
(* demo (AuthContext.tsx, UserProfile, AdminDashboard.tsx,                 *)
(* ProductDetail.tsx, ProductForm).                                        *)
(*                                                                         *)
(* Conventions                                                             *)
(*  - An optional JavaScript value (undefined / null / absent key) is the  *)
(*    empty tuple <<>>; a present value v is the 1-tuple <<v>>.            *)
(*  - Time is counted in half days since the start of the run; an ISO      *)
(*    timestamp string is the 1-tuple of the instant it denotes and the    *)
(*    empty string '' is <<>>.                                             *)
(*  - A text typed into a numeric form field is a sequence of 1-character  *)
(*    strings, so that Number() and parseInt() can be computed on it.      *)
(*  - A step of the model is one callback turn: a handler together with    *)
(*    the synchronous mock-API call(s) it makes.  A handler's early return *)
(*    for a missing identity or a failed form validation is the guard of   *)
(*    the action; an error thrown (rejected) by the mock API or an         *)
(*    authorisation/range refusal is a step that records the error kind.   *)
(*  - localStorage is taken to be available and to accept writes.          *)
(***************************************************************************)
EXTENDS Integers, Sequences, FiniteSets, TLC

(***************************************************************************)
(* Bounds of the model.                                                    *)
(***************************************************************************)
\* the clock stops after MaxTime half days
MaxTime == 3
\* at most MaxUsers rows in usersData.users
MaxUsers == 4
\* at most MaxProducts rows in productsData.products
MaxProducts == 2
\* most reports in the report table
MaxReports == 2
\* most messages in the chat
MaxMessages == 2
\* most ids crypto.randomUUID() hands to reports and messages
MaxUuids == 2

(***************************************************************************)
(* JavaScript values.                                                      *)
(***************************************************************************)
\* IEEE NaN, and the time value of an Invalid Date.  Every number the
\* program stores is >= 0 or NaN, so -1 is free to stand for NaN.
NaN == -1

isNaN(x) == x = NaN

\* a < b, a > b, a - b, a + b on numbers that may be NaN
Lt(a, b) == ~isNaN(a) /\ ~isNaN(b) /\ a < b

Gt(a, b) == ~isNaN(a) /\ ~isNaN(b) /\ a > b

Sub(a, b) == IF isNaN(a) \/ isNaN(b) THEN NaN ELSE a - b

Add(a, b) == IF isNaN(a) \/ isNaN(b) THEN NaN ELSE a + b

None == <<>>

Some(v) == <<v>>

\* JavaScript truthiness of an optional string field (undefined and '' are falsy)
Truthy(o) == o # None /\ o[1] # ""

Digits == {"0", "1", "2", "3", "4", "5", "6", "7", "8", "9"}

DigitVal(c) ==
  CASE c = "0" -> 0 [] c = "1" -> 1 [] c = "2" -> 2 [] c = "3" -> 3 [] c = "4" -> 4
    [] c = "5" -> 5 [] c = "6" -> 6 [] c = "7" -> 7 [] c = "8" -> 8 [] c = "9" -> 9

RECURSIVE Pow10(_)
Pow10(n) == IF n <= 0 THEN 1 ELSE 10 * Pow10(n - 1)

\* index just after the run of white space / of digits that starts at i
RECURSIVE SkipWs(_, _)
SkipWs(s, i) == IF i <= Len(s) /\ s[i] = " " THEN SkipWs(s, i + 1) ELSE i

RECURSIVE DigitsEnd(_, _)
DigitsEnd(s, i) == IF i <= Len(s) /\ s[i] \in Digits THEN DigitsEnd(s, i + 1) ELSE i

\* value of the digits s[i..j-1], 0 when there are none
RECURSIVE DigitsVal(_, _, _)
DigitsVal(s, i, j) ==
  IF j <= i THEN 0 ELSE 10 * DigitsVal(s, i, j - 1) + DigitVal(s[j - 1])

\* String.prototype.trim
RECURSIVE TrimEnd(_)
TrimEnd(s) == IF Len(s) > 0 /\ s[Len(s)] = " " THEN TrimEnd(SubSeq(s, 1, Len(s) - 1)) ELSE s

trim(s) == LET i == SkipWs(s, 1) IN TrimEnd(SubSeq(s, i, Len(s)))

\* parseInt(s): optional white space, optional sign, the longest prefix of
\* decimal digits; NaN when there is no digit.  A negative result is kept
\* apart from NaN by the callers (they test it only after isNaN).
parseInt(s) ==
  LET i == SkipWs(s, 1)
      neg == i <= Len(s) /\ s[i] = "-"
      j == IF i <= Len(s) /\ s[i] \in {"+", "-"} THEN i + 1 ELSE i
      k == DigitsEnd(s, j)
  IN IF k = j THEN [nan |-> TRUE, neg |-> FALSE, val |-> 0]
     ELSE [nan |-> FALSE, neg |-> neg /\ DigitsVal(s, j, k) # 0, val |-> DigitsVal(s, j, k)]

\* Number(s) for a decimal literal: [sign] digits [. digits] [e [sign] digits]
\* or [sign] . digits [e ...]; the value is num / den with den a power of 10.
\* '' and white space give 0; anything else is NaN.  The literal t is read
\* left to right: i is where the integer digits start, a where they end, b
\* where the fraction ends, c where the exponent digits start, d where they end.
NumberValue(neg, mant, scale) ==
  [nan |-> FALSE, neg |-> neg /\ mant # 0,
   num |-> IF scale >= 0 THEN mant * Pow10(scale) ELSE mant,
   den |-> IF scale >= 0 THEN 1 ELSE Pow10(0 - scale)]

NumberRead(t, i, a, b, c, d) ==
  LET fracLen == IF b > a THEN b - (a + 1) ELSE 0
      hasExp == c > b
      expv == IF hasExp THEN DigitsVal(t, c, d) ELSE 0
      eneg == hasExp /\ t[c - 1] = "-"
  IN IF (a > i \/ fracLen > 0) /\ (hasExp => d > c) /\ d = Len(t) + 1
       THEN NumberValue(t[1] = "-",
                        DigitsVal(t, i, a) * Pow10(fracLen) + DigitsVal(t, a + 1, b),
                        (IF eneg THEN 0 - expv ELSE expv) - fracLen)
       ELSE [nan |-> TRUE, neg |-> FALSE, num |-> 0, den |-> 1]

NumberExponent(t, i, a, b, c) ==
  NumberRead(t, i, a, b, c, IF c > b THEN DigitsEnd(t, c) ELSE b)

NumberFraction(t, i, a, b) ==
  NumberExponent(t, i, a, b,
                 IF b <= Len(t) /\ t[b] \in {"e", "E"}
                   THEN IF b + 1 <= Len(t) /\ t[b + 1] \in {"+", "-"} THEN b + 2 ELSE b + 1
                   ELSE b)

NumberInteger(t, i, a) ==
  NumberFraction(t, i, a, IF a <= Len(t) /\ t[a] = "." THEN DigitsEnd(t, a + 1) ELSE a)

NumberTrimmed(t) ==
  IF Len(t) = 0 THEN [nan |-> FALSE, neg |-> FALSE, num |-> 0, den |-> 1]
  ELSE IF t[1] \in {"+", "-"} THEN NumberInteger(t, 2, DigitsEnd(t, 2))
  ELSE NumberInteger(t, 1, DigitsEnd(t, 1))

Number(s) == NumberTrimmed(trim(s))

\* the stored number for a parseInt result that is used unsigned-or-NaN
IntOrNaN(p) == IF p.nan THEN NaN ELSE IF p.neg THEN 0 - p.val ELSE p.val

(***************************************************************************)
(* Time.                                                                   *)
(***************************************************************************)
\* one day (1000 * 60 * 60 * 24 ms), in half days
DAY == 2

\* new Date(s) for an optional ISO string: Invalid Date (NaN) for '' / undefined
NewDate(o) == IF o = None THEN NaN ELSE o[1]

\* Date.prototype.toISOString
toISOString(t) == Some(t)

\* rounding the remaining time down to whole days
FloorDays(t) == t \div DAY

\* Math.ceil(ms / (1000 * 60 * 60 * 24)) for ms >= 0
CeilDays(t) == (t + DAY - 1) \div DAY

(***************************************************************************)
(* The stores (JSON fixtures imported as module-level mutable objects) and *)
(* the client state.                                                       *)
(***************************************************************************)
VARIABLES
  usersData,        \* usersData.users, an array of User
  productsData,     \* productsData.products, an array of Product
  reportsData,      \* reportsData.reports, an array of Report
  chatData,         \* chatData.messages, an array of ChatMessage
  uuids,            \* how many ids crypto.randomUUID() has handed to reports and messages
  session,          \* localStorage['auth_session']: None or Some(record)
  user,             \* AuthProvider's user state: None (null) or Some(User without password)
  confirmPurchase,  \* ProductDetail's confirmPurchase state
  now,              \* the clock, in half days
  outcome           \* what the last handler did: [op, arg, kind, days, lifted]

vars == <<usersData, productsData, reportsData, chatData, uuids, session, user,
          confirmPurchase, now, outcome>>

\* the starting balance of a registered user
StartBalance == 5000000

\* the contents of db/users.json, db/products.json and db/reports.json
UsersFixture ==
  << [username |-> "admin", password |-> "Passw0rd", bio |-> "", isAdmin |-> Some(TRUE),
      canLogin |-> TRUE, banExpiry |-> None, balance |-> StartBalance],
     [username |-> "alice", password |-> "Passw0rd", bio |-> "", isAdmin |-> None,
      canLogin |-> TRUE, banExpiry |-> None, balance |-> StartBalance],
     [username |-> "bob", password |-> "Passw0rd", bio |-> "", isAdmin |-> None,
      canLogin |-> TRUE, banExpiry |-> None, balance |-> 0] >>

ProductsFixture ==
  << [id |-> 1, title |-> "lamp", description |-> "desk lamp", price |-> 100000,
      imageUrl |-> "lamp.png", author |-> "bob",
      createdAt |-> toISOString(0), purchasedBy |-> None, purchasedAt |-> None,
      isDeleted |-> FALSE] >>

ReportsFixture == << >>

\* the contents of db/chat.json
ChatFixture ==
  << [id |-> 1, content |-> "hello", author |-> "bob", createdAt |-> toISOString(0),
      isPrivate |-> FALSE] >>

(***************************************************************************)
(* Inputs the handlers are called with.                                    *)
(***************************************************************************)
LoginNames == {"admin", "alice", "bob", "carol"}

Passwords == {"Passw0rd", "Wrong000"}

RegisterNames == {"alice", "carol"}

RegisterPasswords == {"Passw0rd", "abc"}

\* values of generateAuthToken()
Tokens == {"tok"}

\* user names in the URL of the profile page / in a report row
TargetNames == {"bob", "ghost"}

\* texts of the ban-duration field of the profile page
BanDurationTexts == { <<"1">>, <<"7">>, <<"0">>, <<"3", "6", "6">>, <<"x">> }

\* values of the ban-duration select of the admin dashboard
BanDurationOptions == { <<"1">>, <<"7">> }

ProductIds == 1 .. (MaxProducts + 1)

PriceTexts == { <<"1", "0", "0", "0", "0", "0">>, <<".", "5", "e", "1">>, <<"-", "5">> }

\* the new password typed on the profile page
NewPasswords == {"Wrong000"}

\* the bio typed on the profile page
Bios == {"hi"}

\* what is typed into a report form: "bad", "bad" followed by two blanks, and
\* "not as described"; none of the texts typed anywhere contains markup, so
\* DOMPurify.sanitize hands them back as they are
Bad == <<"b", "a", "d">>

BadPadded == <<"b", "a", "d", " ", " ">>

NotAsDescribed ==
  <<"n", "o", "t", " ", "a", "s", " ", "d", "e", "s", "c", "r", "i", "b", "e", "d">>

ReportReasons == {Bad, BadPadded, NotAsDescribed}

\* ids of chat messages, rows of the dashboard's report list
MessageIds == 1 .. (MaxUuids + 1)

ReportRows == 1 .. MaxReports

MessageTexts == {"hi"}

\* what is typed into the listing form: title, description, price, imageUrl
ListingForms ==
  { [title |-> "lamp", description |-> "desk lamp", price |-> p, imageUrl |-> "lamp.png"] :
      p \in PriceTexts }

\* an edit that changes every field of the form
EditForms ==
  { [title |-> "vase", description |-> "as new", price |-> <<"7">>, imageUrl |-> "vase.png"] }

(***************************************************************************)
(* Array helpers.                                                          *)
(***************************************************************************)
\* users.findIndex(u => u.username === username), 0 for -1
RECURSIVE findUserFrom(_, _, _)
findUserFrom(users, username, i) ==
  IF i > Len(users) THEN 0
  ELSE IF users[i].username = username THEN i
  ELSE findUserFrom(users, username, i + 1)

findUserIndex(users, username) == findUserFrom(users, username, 1)

\* products.findIndex(p => p.id === productId), 0 for -1
RECURSIVE findProductFrom(_, _, _)
findProductFrom(products, productId, i) ==
  IF i > Len(products) THEN 0
  ELSE IF products[i].id = productId THEN i
  ELSE findProductFrom(products, productId, i + 1)

findProductIndex(products, productId) == findProductFrom(products, productId, 1)

\* { ...a, ...b }
spread(a, b) == [f \in (DOMAIN a) \cup (DOMAIN b) |-> IF f \in DOMAIN b THEN b[f] ELSE a[f]]

\* handing out the stored record as it is
userWithPassword(u) == u

\* const { password: _, ...userWithoutPassword } = u
userWithoutPassword(u) == [f \in (DOMAIN u) \ {"password"} |-> u[f]]

\* user?.isAdmin
isAdminOf(o) == o # None /\ o[1].isAdmin = Some(TRUE)

\* a lookup that takes every user for an administrator
isAdminInTable_anyone(users, name) == TRUE

\* usersData.users.find(u => u.username === name)?.isAdmin
isAdminInTable(users, name) ==
  LET i == findUserIndex(users, name) IN i # 0 /\ users[i].isAdmin = Some(TRUE)

\* op, arg: the handler and its argument; kind: "ok" or the error; days: the
\* number of days in the message shown; lifted: the handler restored a
\* banned user's login ability
Report(op, arg, kind) == [op |-> op, arg |-> arg, kind |-> kind, days |-> 0, lifted |-> FALSE]

(***************************************************************************)
(* Session manager (AuthContext.tsx).                                      *)
(***************************************************************************)
\* days a persisted session is valid
SessionDays == 7

\* !s.trim() for the strings the handlers are called with
IsBlank(s) == s \in {"", " "}

\* foundUser.password === password
passwordMatches(found, password) == found.password = password

\* !foundUser.canLogin && new Date(foundUser.banExpiry || '') > new Date()
banInForce(found, t) == ~found.canLogin /\ Gt(NewDate(found.banExpiry), t)

\* Math.ceil((banExpiry.getTime() - new Date().getTime()) / (1000 * 60 * 60 * 24))
remainingDays(found, t) == CeilDays(NewDate(found.banExpiry) - t)

\* restoring login ability without clearing the expiry
liftBan_keepExpiry(found) == [found EXCEPT !.canLogin = TRUE]

\* "Ban expired, restore login ability"
liftBan(found) == [found EXCEPT !.canLogin = TRUE, !.banExpiry = None]

\* a login that looks at the ban before it compares the password
api_login_banFirst(users, username, password, t) ==
  LET i == findUserIndex(users, username)
      failed(kind, days) == [kind |-> kind, days |-> days, users |-> users, user |-> None,
                             lifted |-> FALSE]
  IN IF i = 0 THEN failed("InvalidCredentials", 0)
     ELSE IF banInForce(users[i], t) THEN failed("Banned", remainingDays(users[i], t))
     ELSE IF ~passwordMatches(users[i], password) THEN failed("InvalidCredentials", 0)
     ELSE LET found == IF ~users[i].canLogin THEN liftBan(users[i]) ELSE users[i]
          IN [kind |-> "ok", days |-> 0, users |-> [users EXCEPT ![i] = found],
              user |-> Some(userWithoutPassword(found)), lifted |-> ~users[i].canLogin]

\* api.login: what it throws or returns, and the user table it leaves
api_login(users, username, password, t) ==
  LET i == findUserIndex(users, username)
      failed(kind, days) == [kind |-> kind, days |-> days, users |-> users, user |-> None,
                             lifted |-> FALSE]
  IN IF i = 0 THEN failed("InvalidCredentials", 0)
     ELSE IF ~passwordMatches(users[i], password) THEN failed("InvalidCredentials", 0)
     ELSE IF banInForce(users[i], t) THEN failed("Banned", remainingDays(users[i], t))
     ELSE LET found == IF ~users[i].canLogin THEN liftBan(users[i]) ELSE users[i]
          IN [kind |-> "ok", days |-> 0, users |-> [users EXCEPT ![i] = found],
              user |-> Some(userWithoutPassword(found)), lifted |-> ~users[i].canLogin]

\* login of the AuthProvider
login(username, password) ==
  /\ ~IsBlank(username)
  /\ password # ""
  /\ \E token \in Tokens :
       LET r == api_login(usersData, username, password, now)
       IN /\ outcome' = [op |-> "login", arg |-> username, kind |-> r.kind, days |-> r.days,
                          lifted |-> r.lifted]
          /\ IF r.kind = "ok"
               THEN /\ usersData' = r.users
                    /\ session' = Some([userId |-> r.user[1].username, token |-> token,
                                        expiresAt |-> now + SessionDays * DAY])
                    /\ user' = r.user
               ELSE UNCHANGED <<usersData, session, user>>
  /\ UNCHANGED <<productsData, reportsData, confirmPurchase, now, uuids, chatData>>

\* a register routine that never looks for the username
usernameTaken_never(users, username) == FALSE

\* usersData.users.some(u => u.username === username)
usernameTaken(users, username) == \E i \in 1 .. Len(users) : users[i].username = username

\* api.register
api_register(users, username, password, bio) ==
  IF usernameTaken(users, username)
    THEN [kind |-> "UsernameTaken", users |-> users]
    ELSE [kind |-> "ok",
          users |-> Append(users, [username |-> username, password |-> password,
                                   bio |-> bio, isAdmin |-> None, canLogin |-> TRUE,
                                   banExpiry |-> None, balance |-> StartBalance])]

\* a register that goes on to open a session for the new user
register_andLogin(username, password, bio) ==
  /\ ~IsBlank(username)
  /\ password # ""
  /\ Len(password) >= 4
  /\ LET r == api_register(usersData, username, password, bio)
     IN /\ Len(r.users) <= MaxUsers
        /\ usersData' = r.users
        /\ outcome' = Report("register", username, r.kind)
        /\ IF r.kind = "ok"
             THEN /\ user' = Some(userWithoutPassword(r.users[Len(r.users)]))
                  /\ \E token \in Tokens :
                       session' = Some([userId |-> username, token |-> token,
                                        expiresAt |-> now + SessionDays * DAY])
             ELSE UNCHANGED <<session, user>>
  /\ UNCHANGED <<productsData, reportsData, confirmPurchase, now, uuids, chatData>>

\* register of the AuthProvider
register(username, password, bio) ==
  /\ ~IsBlank(username)
  /\ password # ""
  /\ Len(password) >= 4
  /\ LET r == api_register(usersData, username, password, bio)
     IN /\ Len(r.users) <= MaxUsers
        /\ usersData' = r.users
        /\ outcome' = Report("register", username, r.kind)
  /\ UNCHANGED <<productsData, reportsData, session, user, confirmPurchase, now, uuids, chatData>>

\* a logout that resets the identity and leaves the persisted session
logout_keepSession ==
  /\ user' = None
  /\ outcome' = Report("logout", "", "ok")
  /\ UNCHANGED <<usersData, productsData, reportsData, session, confirmPurchase, now, uuids, chatData>>

\* logout of the AuthProvider
logout ==
  /\ session' = None
  /\ user' = None
  /\ outcome' = Report("logout", "", "ok")
  /\ UNCHANGED <<usersData, productsData, reportsData, confirmPurchase, now, uuids, chatData>>

\* values localStorage['auth_session'] can be left with by something other
\* than login: text that is not JSON, and JSON objects lacking token or userId
MalformedSessions ==
  { [raw |-> "{"] ,
    [userId |-> "alice", expiresAt |-> SessionDays * DAY],
    [token |-> "tok", expiresAt |-> SessionDays * DAY],
    [userId |-> "alice", token |-> "", expiresAt |-> SessionDays * DAY] }

\* storage.get: JSON.parse of the stored text, null when absent or unparsable
storage_get(stored) ==
  IF stored = None THEN None
  ELSE IF "raw" \in DOMAIN stored[1] THEN None
  ELSE stored

\* sessionData && sessionData.token && sessionData.userId
sessionUsable(sessionData) ==
  /\ sessionData # None
  /\ "token" \in DOMAIN sessionData[1]
  /\ sessionData[1].token # ""
  /\ "userId" \in DOMAIN sessionData[1]
  /\ sessionData[1].userId # ""

\* a getUser that does not hand out a user who cannot log in
api_getUser_unlessBanned(users, username) ==
  LET i == findUserIndex(users, username)
  IN IF i = 0 \/ ~users[i].canLogin THEN [kind |-> "NotFound", user |-> None]
     ELSE [kind |-> "ok", user |-> Some(userWithoutPassword(users[i]))]

\* api.getUser of the AuthContext
api_getUser(users, username) ==
  LET i == findUserIndex(users, username)
  IN IF i = 0 THEN [kind |-> "NotFound", user |-> None]
     ELSE [kind |-> "ok", user |-> Some(userWithoutPassword(users[i]))]

\* an initializeAuth that drops a session whose expiresAt is not later than now
initializeAuth_untilExpiry(stored, users) ==
  LET sessionData == storage_get(stored)
  IN IF ~sessionUsable(sessionData) THEN [kind |-> "none", session |-> stored, user |-> None]
     ELSE IF "expiresAt" \in DOMAIN sessionData[1] /\ sessionData[1].expiresAt <= now
       THEN [kind |-> "Expired", session |-> None, user |-> None]
     ELSE IF api_getUser(users, sessionData[1].userId).kind = "ok"
       THEN [kind |-> "ok", session |-> stored,
             user |-> api_getUser(users, sessionData[1].userId).user]
     ELSE [kind |-> "NotFound", session |-> None, user |-> None]

\* an initializeAuth whose catch block forgets to remove the session
initializeAuth_keepSession(stored, users) ==
  LET sessionData == storage_get(stored)
  IN IF ~sessionUsable(sessionData) THEN [kind |-> "none", session |-> stored, user |-> None]
     ELSE IF api_getUser(users, sessionData[1].userId).kind = "ok"
       THEN [kind |-> "ok", session |-> stored,
             user |-> api_getUser(users, sessionData[1].userId).user]
     ELSE [kind |-> "NotFound", session |-> stored, user |-> None]

\* initializeAuth: the persisted session and the identity it leaves
initializeAuth(stored, users) ==
  LET sessionData == storage_get(stored)
  IN IF ~sessionUsable(sessionData) THEN [kind |-> "none", session |-> stored, user |-> None]
     ELSE IF api_getUser(users, sessionData[1].userId).kind = "ok"
       THEN [kind |-> "ok", session |-> stored,
             user |-> api_getUser(users, sessionData[1].userId).user]
     ELSE [kind |-> "NotFound", session |-> None, user |-> None]

\* the page is loaded again: the stores are the imported fixtures, the
\* component state is new, localStorage is what it was, and the AuthProvider's
\* mount effect runs initializeAuth
startup ==
  LET r == initializeAuth(session, UsersFixture)
  IN /\ usersData' = UsersFixture
     /\ productsData' = ProductsFixture
     /\ reportsData' = ReportsFixture
     /\ confirmPurchase' = FALSE
     /\ session' = r.session
     /\ user' = r.user
     /\ outcome' = Report("restore", "", r.kind)
     /\ chatData' = ChatFixture
     /\ UNCHANGED <<now, uuids>>

\* localStorage['auth_session'] is overwritten from outside the application
storageEdited(value) ==
  /\ session' = Some(value)
  /\ outcome' = Report("storage", "", "ok")
  /\ UNCHANGED <<usersData, productsData, reportsData, user, confirmPurchase, now, uuids, chatData>>

\* a password change that also makes the user an administrator
withPassword_asAdmin(found, newPassword) ==
  [found EXCEPT !.password = newPassword, !.isAdmin = Some(TRUE)]

\* { ...user, password: newPassword }
withPassword(found, newPassword) == [found EXCEPT !.password = newPassword]

\* api.updatePassword
api_updatePassword(users, username, oldPassword, newPassword) ==
  LET userIndex == findUserIndex(users, username)
  IN IF userIndex = 0 THEN [kind |-> "NotFound", users |-> users, user |-> None]
     ELSE IF users[userIndex].password # oldPassword
       THEN [kind |-> "WrongPassword", users |-> users, user |-> None]
     ELSE LET updated == withPassword(users[userIndex], newPassword)
          IN [kind |-> "ok", users |-> [users EXCEPT ![userIndex] = updated],
              user |-> Some(userWithoutPassword(updated))]

\* updatePassword of the AuthProvider, called by handlePasswordUpdate of the
\* profile page once the new password and its confirmation agree
updatePassword(oldPassword, newPassword) ==
  /\ user # None
  /\ oldPassword # ""
  /\ newPassword # ""
  /\ Len(newPassword) >= 4
  /\ LET r == api_updatePassword(usersData, user[1].username, oldPassword, newPassword)
     IN /\ usersData' = r.users
        /\ user' = IF r.kind = "ok" THEN r.user ELSE user
        /\ outcome' = Report("updatePassword", user[1].username, r.kind)
  /\ UNCHANGED <<productsData, reportsData, chatData, session, confirmPurchase, now, uuids>>

\* a bio change that also puts the balance back to the starting balance
withBio_refund(found, newBio) == [found EXCEPT !.bio = newBio, !.balance = StartBalance]

\* { ...usersData.users[userIndex], bio: newBio }
withBio(found, newBio) == [found EXCEPT !.bio = newBio]

\* api.updateBio
api_updateBio(users, username, newBio) ==
  LET userIndex == findUserIndex(users, username)
  IN IF userIndex = 0 THEN [kind |-> "NotFound", users |-> users, user |-> None]
     ELSE LET updated == withBio(users[userIndex], newBio)
          IN [kind |-> "ok", users |-> [users EXCEPT ![userIndex] = updated],
              user |-> Some(userWithoutPassword(updated))]

\* updateBio of the AuthProvider, called by handleBioUpdate of the profile page
\* with the trimmed text; the bios typed have at most 500 characters
updateBio(newBio) ==
  /\ user # None
  /\ Len(newBio) <= 500
  /\ LET r == api_updateBio(usersData, user[1].username, newBio)
     IN /\ usersData' = r.users
        /\ user' = IF r.kind = "ok" THEN r.user ELSE user
        /\ outcome' = Report("updateBio", user[1].username, r.kind)
  /\ UNCHANGED <<productsData, reportsData, chatData, session, confirmPurchase, now, uuids>>

(***************************************************************************)
(* Ban policy: the profile page (UserProfile) and the admin dashboard.     *)
(***************************************************************************)
\* longest ban, in days
MaxBanDays == 365

\* api.banUser of the profile page; days is the number the handler parsed
api_banUser(users, username, days, adminUsername, t) ==
  LET i == findUserIndex(users, username)
  IN IF ~isAdminInTable(users, adminUsername) THEN [kind |-> "Forbidden", users |-> users]
     ELSE IF days.nan \/ days.neg \/ days.val <= 0 \/ days.val > MaxBanDays
       THEN [kind |-> "OutOfRange", users |-> users]
     ELSE IF i = 0 THEN [kind |-> "NotFound", users |-> users]
     ELSE [kind |-> "ok",
           users |-> [users EXCEPT ![i] = [@ EXCEPT !.canLogin = FALSE,
                                             !.banExpiry = toISOString(t + days.val * DAY)]]]

\* handleBanUser of the profile page of `username`
profile_handleBanUser(username, banDuration) ==
  LET days == parseInt(banDuration)
      kind == IF ~isAdminOf(user) THEN "Forbidden"
              ELSE IF days.nan \/ days.neg \/ days.val <= 0 \/ days.val > MaxBanDays
                THEN "OutOfRange"
              ELSE api_banUser(usersData, username, days, user[1].username, now).kind
  IN /\ usersData' = IF kind = "ok"
                       THEN api_banUser(usersData, username, days, user[1].username, now).users
                       ELSE usersData
     /\ outcome' = [Report("ban", username, kind) EXCEPT
                      !.days = IF kind = "ok" THEN days.val ELSE 0]
     /\ UNCHANGED <<productsData, reportsData, session, user, confirmPurchase, now, uuids, chatData>>

\* an unban that restores canLogin and leaves the expiry in place
api_unbanUser_keepExpiry(users, username, adminUsername) ==
  LET i == findUserIndex(users, username)
  IN IF ~isAdminInTable(users, adminUsername) THEN [kind |-> "Forbidden", users |-> users]
     ELSE IF i = 0 THEN [kind |-> "NotFound", users |-> users]
     ELSE [kind |-> "ok", users |-> [users EXCEPT ![i].canLogin = TRUE]]

\* api.unbanUser of the profile page
api_unbanUser(users, username, adminUsername) ==
  LET i == findUserIndex(users, username)
  IN IF ~isAdminInTable(users, adminUsername) THEN [kind |-> "Forbidden", users |-> users]
     ELSE IF i = 0 THEN [kind |-> "NotFound", users |-> users]
     ELSE [kind |-> "ok",
           users |-> [users EXCEPT ![i] = [@ EXCEPT !.canLogin = TRUE, !.banExpiry = None]]]

\* handleUnbanUser of the profile page of `username`
profile_handleUnbanUser(username) ==
  LET r == IF ~isAdminOf(user) THEN [kind |-> "Forbidden", users |-> usersData]
           ELSE api_unbanUser(usersData, username, user[1].username)
  IN /\ usersData' = r.users
     /\ outcome' = Report("unban", username, r.kind)
     /\ UNCHANGED <<productsData, reportsData, session, user, confirmPurchase, now, uuids, chatData>>

\* the action handleBanUser of the admin dashboard runs once verifyAdminAndExecute
\* has let it through: the new user table and report table
admin_banAction(users, reports, username, banDuration, t) ==
  LET days == parseInt(banDuration)
      i == findUserIndex(users, username)
      keep(r) == r.reportedUser # username
  IN [users |-> IF i # 0
                  THEN [users EXCEPT ![i] = [@ EXCEPT !.canLogin = FALSE,
                                               !.banExpiry = toISOString(t + days.val * DAY)]]
                  ELSE users,
      reports |-> SelectSeq(reports, keep)]

\* handleBanUser of the admin dashboard, for a report about `username`
admin_handleBanUser(username, banDuration) ==
  /\ IF isAdminOf(user)
       THEN LET r == admin_banAction(usersData, reportsData, username, banDuration, now)
            IN /\ usersData' = r.users
               /\ reportsData' = r.reports
               /\ outcome' = [Report("adminBan", username, "ok") EXCEPT
                                !.days = parseInt(banDuration).val]
       ELSE /\ outcome' = Report("adminBan", username, "Forbidden")
            /\ UNCHANGED <<usersData, reportsData>>
  /\ UNCHANGED <<productsData, session, user, confirmPurchase, now, uuids, chatData>>

\* the action handleUnbanUser of the admin dashboard runs
admin_unbanAction(users, username) ==
  LET i == findUserIndex(users, username)
  IN IF i # 0
       THEN [kind |-> "ok",
             users |-> [users EXCEPT ![i] = [@ EXCEPT !.canLogin = TRUE, !.banExpiry = None]]]
       ELSE [kind |-> "none", users |-> users]

\* handleUnbanUser of the admin dashboard
admin_handleUnbanUser(username) ==
  /\ LET r == IF isAdminOf(user) THEN admin_unbanAction(usersData, username)
              ELSE [kind |-> "Forbidden", users |-> usersData]
     IN /\ usersData' = r.users
        /\ outcome' = Report("adminUnban", username, r.kind)
  /\ UNCHANGED <<productsData, reportsData, session, user, confirmPurchase, now, uuids, chatData>>

\* loadUserData of the profile page of `username`, run at instant t: the
\* isBanned state it sets
profile_isBanned(users, username, t) ==
  LET i == findUserIndex(users, username)
  IN /\ i # 0
     /\ users[i].banExpiry # None
     /\ Gt(NewDate(users[i].banExpiry), t)

\* the bannedUsers state of the admin dashboard, as set when the dashboard is
\* mounted and after each ban and unban it makes
dashboard_bannedUsers(users) ==
  LET banned(u) == ~u.canLogin IN SelectSeq(users, banned)

(***************************************************************************)
(* Marketplace transaction (ProductDetail.tsx, ProductForm).               *)
(***************************************************************************)
\* highest price a listing form accepts
MaxPrice == 10000000

\* validatePrice: "ok" for null, otherwise which message
validatePrice(price) ==
  LET numPrice == Number(price)
  IN IF trim(price) = << >> THEN "required"
     ELSE IF numPrice.nan THEN "notANumber"
     ELSE IF numPrice.neg THEN "negative"
     ELSE IF numPrice.num > MaxPrice * numPrice.den THEN "tooHigh"
     ELSE IF numPrice.num % numPrice.den # 0 THEN "notAnInteger"
     ELSE "ok"

\* api.createProduct; crypto.randomUUID() is the first id not in use
api_createProduct(products, productData, t) ==
  Append(products,
         [id |-> Len(products) + 1, title |-> productData.title,
          description |-> productData.description, price |-> productData.price,
          imageUrl |-> productData.imageUrl, author |-> productData.author,
          createdAt |-> toISOString(t), purchasedBy |-> None, purchasedAt |-> None,
          isDeleted |-> FALSE])

\* handleSubmit of the listing form
ProductForm_handleSubmit(form) ==
  /\ user # None
  /\ validatePrice(form.price) = "ok"
  /\ Len(productsData) < MaxProducts
  /\ productsData' = api_createProduct(productsData,
                        [title |-> form.title, description |-> form.description,
                         price |-> IntOrNaN(parseInt(form.price)),
                         imageUrl |-> form.imageUrl, author |-> user[1].username], now)
  /\ outcome' = Report("create", Len(productsData) + 1, "ok")
  /\ UNCHANGED <<usersData, reportsData, session, user, confirmPurchase, now, uuids, chatData>>

\* api.updateProduct
api_updateProduct(users, products, productId, updatedData, username) ==
  LET i == findProductIndex(products, productId)
  IN IF i = 0 THEN [kind |-> "NotFound", products |-> products]
     ELSE IF products[i].author # username /\ ~isAdminInTable(users, username)
       THEN [kind |-> "Forbidden", products |-> products]
     ELSE [kind |-> "ok",
           products |-> [products EXCEPT ![i] = spread(@, updatedData)]]

\* handleUpdate of the product page of `productId`
handleUpdate(productId, form) ==
  /\ user # None
  /\ validatePrice(form.price) = "ok"
  /\ LET r == api_updateProduct(usersData, productsData, productId,
                                [title |-> form.title, description |-> form.description,
                                 price |-> IntOrNaN(parseInt(form.price)),
                                 imageUrl |-> form.imageUrl],
                                user[1].username)
     IN /\ productsData' = r.products
        /\ outcome' = Report("update", productId, r.kind)
  /\ UNCHANGED <<usersData, reportsData, session, user, confirmPurchase, now, uuids, chatData>>

\* a purchase routine that also refuses a product that is deleted
alreadySold_orDeleted(product) == Truthy(product.purchasedBy) \/ product.isDeleted

\* a purchase routine that never looks at purchasedBy
alreadySold_never(product) == FALSE

\* if (product.purchasedBy)
alreadySold(product) == Truthy(product.purchasedBy)

\* a purchase routine that never compares the balance with the price
insufficientBalance_never(buyer, product) == FALSE

\* if (buyer.balance < product.price)
insufficientBalance(buyer, product) == Lt(buyer.balance, product.price)

\* usersData.users[buyerIndex].balance -= product.price
debitBuyer(users, buyerIndex, price) ==
  [users EXCEPT ![buyerIndex].balance = Sub(@, price)]

\* a credit that goes to the first user when the seller is not found
creditSeller_orFirstUser(users, author, price) ==
  LET sellerIndex == findUserIndex(users, author)
  IN [users EXCEPT ![IF sellerIndex # 0 THEN sellerIndex ELSE 1].balance = Add(@, price)]

\* the seller is looked up after the debit and credited when found
creditSeller(users, author, price) ==
  LET sellerIndex == findUserIndex(users, author)
  IN IF sellerIndex # 0 THEN [users EXCEPT ![sellerIndex].balance = Add(@, price)]
     ELSE users

\* a sale that records the buyer and not the time
stampPurchase_byOnly(product, username, t) == [product EXCEPT !.purchasedBy = Some(username)]

\* a sale whose write of the product is lost
stampPurchase_lost(product, username, t) == product

\* a sale that puts the product back on the list
stampPurchase_relist(product, username, t) ==
  [product EXCEPT !.purchasedBy = Some(username), !.purchasedAt = toISOString(t),
                  !.isDeleted = FALSE]

\* { ...product, purchasedBy: username, purchasedAt: new Date().toISOString() }
stampPurchase(product, username, t) ==
  [product EXCEPT !.purchasedBy = Some(username), !.purchasedAt = toISOString(t)]

\* api.purchaseProduct
api_purchaseProduct(users, products, productId, username, t) ==
  LET productIndex == findProductIndex(products, productId)
      product == products[productIndex]
      buyerIndex == findUserIndex(users, username)
      failed(kind) == [kind |-> kind, users |-> users, products |-> products,
                       buyerBalance |-> NaN]
  IN IF productIndex = 0 THEN failed("NotFound")
     ELSE IF alreadySold(product) THEN failed("AlreadySold")
     ELSE IF buyerIndex = 0 THEN failed("UserNotFound")
     ELSE IF insufficientBalance(users[buyerIndex], product) THEN failed("InsufficientBalance")
     ELSE LET paid == creditSeller(debitBuyer(users, buyerIndex, product.price),
                                   product.author, product.price)
          IN [kind |-> "ok", users |-> paid,
              products |-> [products EXCEPT ![productIndex] =
                              stampPurchase(product, username, t)],
              buyerBalance |-> paid[buyerIndex].balance]

\* updateBalance of the AuthProvider with api.updateBalance: the user table it leaves
updateBalance(users, identity, newBalance) ==
  LET userIndex == IF identity = None THEN 0 ELSE findUserIndex(users, identity[1].username)
  IN IF identity = None \/ isNaN(newBalance) \/ newBalance < 0 \/ userIndex = 0 THEN users
     ELSE [users EXCEPT ![userIndex].balance = newBalance]

\* refreshUser of the AuthProvider with api.getUser: the identity it leaves
refreshUser(users, identity) ==
  LET i == IF identity = None THEN 0 ELSE findUserIndex(users, identity[1].username)
  IN IF i = 0 THEN identity ELSE Some(userWithoutPassword(users[i]))

\* handlePurchase of the product page of `productId`
handlePurchase(productId) ==
  /\ user # None
  /\ IF ~confirmPurchase
       THEN /\ confirmPurchase' = TRUE
            /\ UNCHANGED <<usersData, productsData, user, outcome>>
       ELSE LET r == api_purchaseProduct(usersData, productsData, productId,
                                         user[1].username, now)
                updated == updateBalance(r.users, user, r.buyerBalance)
            IN /\ confirmPurchase' = FALSE
               /\ outcome' = Report("purchase", productId, r.kind)
               /\ IF r.kind = "ok"
                    THEN /\ productsData' = r.products
                         /\ usersData' = updated
                         /\ user' = refreshUser(updated, user)
                    ELSE UNCHANGED <<usersData, productsData, user>>
  /\ UNCHANGED <<reportsData, session, now, uuids, chatData>>

\* api.deleteProduct
api_deleteProduct(users, products, productId, username) ==
  LET productIndex == findProductIndex(products, productId)
  IN IF productIndex = 0 THEN [kind |-> "NotFound", products |-> products]
     ELSE IF products[productIndex].author # username /\ ~isAdminInTable(users, username)
       THEN [kind |-> "Forbidden", products |-> products]
     ELSE [kind |-> "ok",
           products |-> [products EXCEPT ![productIndex] = spread(@, [isDeleted |-> TRUE])]]

\* handleDelete of the product page of `productId`, the confirm dialog accepted
handleDelete(productId) ==
  /\ user # None
  /\ LET r == api_deleteProduct(usersData, productsData, productId, user[1].username)
     IN /\ productsData' = r.products
        /\ outcome' = Report("delete", productId, r.kind)
  /\ UNCHANGED <<usersData, reportsData, chatData, session, user, confirmPurchase, now, uuids>>

\* a sweep that does not wait for the day to pass
sweepDue_atOnce(p, t) == p.purchasedAt # None /\ ~p.isDeleted

\* p.purchasedAt && now > oneDayLater && !p.isDeleted
sweepDue(p, t) ==
  /\ p.purchasedAt # None
  /\ Gt(t, Add(NewDate(p.purchasedAt), DAY))
  /\ ~p.isDeleted

\* api.cleanupPurchasedProducts
api_cleanupPurchasedProducts(products, t) ==
  [products |-> [i \in 1 .. Len(products) |->
                   IF sweepDue(products[i], t) THEN spread(products[i], [isDeleted |-> TRUE])
                   ELSE products[i]],
   updated |-> \E i \in 1 .. Len(products) : sweepDue(products[i], t)]

\* the sweep a product page runs when it is entered and every minute after
cleanupPurchasedProducts ==
  /\ LET r == api_cleanupPurchasedProducts(productsData, now)
     IN /\ productsData' = r.products
        /\ outcome' = Report("sweep", "", IF r.updated THEN "updated" ELSE "unchanged")
  /\ UNCHANGED <<usersData, reportsData, chatData, session, user, confirmPurchase, now, uuids>>

(***************************************************************************)
(* Reports and moderation (ProductDetail.tsx, Chat, UserProfile,           *)
(* AdminDashboard.tsx).                                                    *)
(***************************************************************************)
\* crypto.randomUUID(): an id never handed out before; the fixtures use 1
randomUUID(drawn) == drawn + 2

\* messages.findIndex(msg => msg.id === id), 0 for -1
RECURSIVE findMessageFrom(_, _, _)
findMessageFrom(messages, id, i) ==
  IF i > Len(messages) THEN 0
  ELSE IF messages[i].id = id THEN i
  ELSE findMessageFrom(messages, id, i + 1)

findMessageIndex(messages, id) == findMessageFrom(messages, id, 1)

\* array.splice(index, 1)
splice(rows, index) == [i \in 1 .. (Len(rows) - 1) |-> IF i < index THEN rows[i] ELSE rows[i + 1]]

\* api.reportProduct
api_reportProduct(products, reports, productId, reason, username, t, drawn) ==
  LET productIndex == findProductIndex(products, productId)
  IN IF productIndex = 0 THEN [kind |-> "NotFound", reports |-> reports]
     ELSE [kind |-> "ok",
           reports |-> Append(reports,
                         [id |-> randomUUID(drawn), type |-> "product",
                          contentId |-> Some(productId),
                          reportedUser |-> products[productIndex].author,
                          reason |-> reason, reportedBy |-> username,
                          createdAt |-> toISOString(t)])]

\* handleReport of the product page of `productId`; the page shows the
\* product; a report that fails the form's checks is "TooShort"
product_handleReport(productId, reportReason) ==
  /\ user # None
  /\ findProductIndex(productsData, productId) # 0
  /\ productsData[findProductIndex(productsData, productId)].author # user[1].username
  /\ Len(reportsData) < MaxReports
  /\ uuids < MaxUuids
  /\ LET r == IF trim(reportReason) = << >> \/ Len(reportReason) < 5
                THEN [kind |-> "TooShort", reports |-> reportsData]
                ELSE api_reportProduct(productsData, reportsData, productId,
                                       trim(reportReason), user[1].username, now, uuids)
     IN /\ reportsData' = r.reports
        /\ uuids' = IF r.kind = "ok" THEN uuids + 1 ELSE uuids
        /\ outcome' = Report("reportProduct", productId, r.kind)
  /\ UNCHANGED <<usersData, productsData, chatData, session, user, confirmPurchase, now>>

\* validateInput of the chat page: "ok" or which check failed
validateInput(text, minLength, maxLength) ==
  IF text = << >> \/ Len(trim(text)) < minLength THEN "TooShort"
  ELSE IF Len(text) > maxLength THEN "TooLong"
  ELSE "ok"

\* api.reportMessage
api_reportMessage(reports, report) == Append(reports, report)

\* handleReport of the chat page for the message shown with id `messageId`
chat_handleReport(messageId, reportReason) ==
  /\ user # None
  /\ findMessageIndex(chatData, messageId) # 0
  /\ chatData[findMessageIndex(chatData, messageId)].author # user[1].username
  /\ Len(reportsData) < MaxReports
  /\ uuids < MaxUuids
  /\ LET validation == validateInput(reportReason, 5, 200)
     IN /\ reportsData' =
             IF validation = "ok"
               THEN api_reportMessage(reportsData,
                      [id |-> randomUUID(uuids), type |-> "chat",
                       contentId |-> Some(messageId),
                       reportedUser |-> chatData[findMessageIndex(chatData, messageId)].author,
                       reason |-> trim(reportReason), reportedBy |-> user[1].username,
                       createdAt |-> toISOString(now)])
               ELSE reportsData
        /\ uuids' = IF validation = "ok" THEN uuids + 1 ELSE uuids
        /\ outcome' = Report("reportChat", messageId, validation)
  /\ UNCHANGED <<usersData, productsData, chatData, session, user, confirmPurchase, now>>

\* api.reportUser of the profile page
api_reportUser(reports, reportData, t, drawn) ==
  IF reportData.reason = << >> \/ Len(trim(reportData.reason)) < 5
    THEN [kind |-> "TooShort", reports |-> reports]
    ELSE [kind |-> "ok",
          reports |-> Append(reports,
                        [id |-> randomUUID(drawn), type |-> "user", contentId |-> None,
                         reportedUser |-> reportData.username, reason |-> reportData.reason,
                         reportedBy |-> reportData.reporterUsername,
                         createdAt |-> toISOString(t)])]

\* handleReport of the profile page of `username`
profile_handleReport(username, reportReason) ==
  /\ user # None
  /\ Len(reportsData) < MaxReports
  /\ uuids < MaxUuids
  /\ LET r == IF trim(reportReason) = << >> \/ Len(trim(reportReason)) < 5
                THEN [kind |-> "TooShort", reports |-> reportsData]
                ELSE api_reportUser(reportsData,
                                    [username |-> username, reason |-> trim(reportReason),
                                     reporterUsername |-> user[1].username], now, uuids)
     IN /\ reportsData' = r.reports
        /\ uuids' = IF r.kind = "ok" THEN uuids + 1 ELSE uuids
        /\ outcome' = Report("reportUser", username, r.kind)
  /\ UNCHANGED <<usersData, productsData, chatData, session, user, confirmPurchase, now>>

\* api.sendMessage with the message handleSubmit of the chat page builds
api_sendMessage(messages, content, author, t, drawn) ==
  Append(messages, [id |-> randomUUID(drawn), content |-> content, author |-> author,
                    createdAt |-> toISOString(t), isPrivate |-> FALSE])

\* handleSubmit of the chat page; the texts typed pass validateInput
chat_handleSubmit(newMessage) ==
  /\ user # None
  /\ Len(chatData) < MaxMessages
  /\ uuids < MaxUuids
  /\ chatData' = api_sendMessage(chatData, newMessage, user[1].username, now, uuids)
  /\ uuids' = uuids + 1
  /\ outcome' = Report("send", "", "ok")
  /\ UNCHANGED <<usersData, productsData, reportsData, session, user, confirmPurchase, now>>

\* api.deleteMessage
api_deleteMessage(messages, id, username, isAdmin) ==
  LET i == findMessageIndex(messages, id)
      keep(msg) == msg.id # id
  IN IF i = 0 THEN [kind |-> "NotFound", messages |-> messages]
     ELSE IF messages[i].author # username /\ ~isAdmin
       THEN [kind |-> "Forbidden", messages |-> messages]
     ELSE [kind |-> "ok", messages |-> SelectSeq(messages, keep)]

\* handleDelete of the chat page
chat_handleDelete(id) ==
  /\ user # None
  /\ LET r == api_deleteMessage(chatData, id, user[1].username, isAdminOf(user))
     IN /\ chatData' = r.messages
        /\ outcome' = Report("deleteMessage", id, r.kind)
  /\ UNCHANGED <<usersData, productsData, reportsData, session, user, confirmPurchase, now, uuids>>

\* a report removal that empties the report table
withoutReport_all(reports, reportId) == << >>

\* reports.filter(r => r.id !== reportId)
withoutReport(reports, reportId) ==
  LET keep(r) == r.id # reportId IN SelectSeq(reports, keep)

\* the action handleDeleteContent of the admin dashboard runs once
\* verifyAdminAndExecute has let it through
admin_deleteContentAction(reports, messages, products, report) ==
  LET messageIndex == findMessageIndex(messages, report.contentId[1])
      productIndex == findProductIndex(products, report.contentId[1])
      missing == [kind |-> "NotFound", reports |-> reports, messages |-> messages,
                  products |-> products]
  IN IF report.type = "chat"
       THEN IF messageIndex # 0
              THEN [kind |-> "ok", reports |-> withoutReport(reports, report.id),
                    messages |-> splice(messages, messageIndex), products |-> products]
              ELSE missing
     ELSE IF report.type = "product"
       THEN IF productIndex # 0
              THEN [kind |-> "ok", reports |-> withoutReport(reports, report.id),
                    messages |-> messages,
                    products |-> [products EXCEPT ![productIndex] =
                                    spread(@, [isDeleted |-> TRUE])]]
              ELSE missing
     ELSE [kind |-> "ok", reports |-> withoutReport(reports, report.id),
           messages |-> messages, products |-> products]

\* handleDeleteContent of the admin dashboard, for the report in row `row` of
\* the report list
handleDeleteContent(row) ==
  /\ row \in 1 .. Len(reportsData)
  /\ LET r == IF isAdminOf(user)
                THEN admin_deleteContentAction(reportsData, chatData, productsData,
                                               reportsData[row])
                ELSE [kind |-> "Forbidden", reports |-> reportsData, messages |-> chatData,
                      products |-> productsData]
     IN /\ reportsData' = r.reports
        /\ chatData' = r.messages
        /\ productsData' = r.products
        /\ outcome' = Report("actOnReport", reportsData[row].type, r.kind)
  /\ UNCHANGED <<usersData, session, user, confirmPurchase, now, uuids>>

\* handleDismissReport of the admin dashboard
handleDismissReport(row) ==
  /\ row \in 1 .. Len(reportsData)
  /\ reportsData' = IF isAdminOf(user) THEN withoutReport(reportsData, reportsData[row].id)
                    ELSE reportsData
  /\ outcome' = Report("dismiss", reportsData[row].id,
                       IF isAdminOf(user) THEN "ok" ELSE "Forbidden")
  /\ UNCHANGED <<usersData, productsData, chatData, session, user, confirmPurchase, now, uuids>>

Init ==
  /\ usersData = UsersFixture
  /\ productsData = ProductsFixture
  /\ reportsData = ReportsFixture
  /\ chatData = ChatFixture
  /\ uuids = 0
  /\ session = None
  /\ user = None
  /\ confirmPurchase = FALSE
  /\ now = 0
  /\ outcome = Report("init", "", "ok")

\* a clock whose tick also restores the users whose ban has run out
Tick_sweepingBans ==
  /\ now < MaxTime
  /\ now' = now + 1
  /\ usersData' = [i \in 1 .. Len(usersData) |->
                     IF ~usersData[i].canLogin /\ ~banInForce(usersData[i], now + 1)
                       THEN liftBan(usersData[i])
                       ELSE usersData[i]]
  /\ UNCHANGED <<productsData, reportsData, chatData, session, user, confirmPurchase, uuids,
                 outcome>>

\* time passes
Tick ==
  /\ now < MaxTime
  /\ now' = now + 1
  /\ UNCHANGED <<usersData, productsData, reportsData, chatData, session, user,
               confirmPurchase, uuids, outcome>>

Next ==
  \/ Tick
  \/ \E username \in LoginNames, password \in Passwords : login(username, password)
  \/ \E username \in RegisterNames, password \in RegisterPasswords :
       register(username, password, "")
  \/ logout
  \/ \E username \in TargetNames, banDuration \in BanDurationTexts :
       profile_handleBanUser(username, banDuration)
  \/ \E username \in TargetNames : profile_handleUnbanUser(username)
  \/ \E username \in TargetNames, banDuration \in BanDurationOptions :
       admin_handleBanUser(username, banDuration)
  \/ \E username \in TargetNames : admin_handleUnbanUser(username)
  \/ \E form \in ListingForms : ProductForm_handleSubmit(form)
  \/ \E productId \in ProductIds, form \in ListingForms : handleUpdate(productId, form)
  \/ \E productId \in ProductIds : handlePurchase(productId)
  \/ startup
  \/ \E value \in MalformedSessions : storageEdited(value)
  \/ \E oldPassword \in Passwords, newPassword \in NewPasswords :
       updatePassword(oldPassword, newPassword)
  \/ \E newBio \in Bios : updateBio(newBio)
  \/ \E productId \in ProductIds : handleDelete(productId)
  \/ cleanupPurchasedProducts
  \/ \E productId \in ProductIds, reportReason \in ReportReasons :
       product_handleReport(productId, reportReason)
  \/ \E messageId \in MessageIds, reportReason \in ReportReasons :
       chat_handleReport(messageId, reportReason)
  \/ \E username \in TargetNames, reportReason \in ReportReasons :
       profile_handleReport(username, reportReason)
  \/ \E newMessage \in MessageTexts : chat_handleSubmit(newMessage)
  \/ \E id \in MessageIds : chat_handleDelete(id)
  \/ \E row \in ReportRows : handleDeleteContent(row)
  \/ \E row \in ReportRows : handleDismissReport(row)

Spec == Init /\ [][Next]_vars

\* the session manager over page loads
NextSession ==
  \/ Tick
  \/ \E username \in LoginNames, password \in Passwords : login(username, password)
  \/ \E username \in RegisterNames, password \in RegisterPasswords :
       register(username, password, "")
  \/ logout
  \/ startup
  \/ \E value \in MalformedSessions : storageEdited(value)

SpecSession == Init /\ [][NextSession]_vars

\* the page stays closed for longer than a session is valid
Away ==
  /\ now <= MaxTime
  /\ now' = now + (SessionDays + 1) * DAY
  /\ UNCHANGED <<usersData, productsData, reportsData, chatData, session, user,
                 confirmPurchase, uuids, outcome>>

\* the session manager over page loads and long absences
NextAged ==
  \/ Tick
  \/ Away
  \/ \E username \in LoginNames, password \in Passwords : login(username, password)
  \/ \E username \in RegisterNames, password \in RegisterPasswords :
       register(username, password, "")
  \/ logout
  \/ startup
  \/ \E value \in MalformedSessions : storageEdited(value)

SpecAged == Init /\ [][NextAged]_vars

\* the session manager and the ban policy on their own
NextAuth ==
  \/ Tick
  \/ \E username \in LoginNames, password \in Passwords : login(username, password)
  \/ \E username \in RegisterNames, password \in RegisterPasswords :
       register(username, password, "")
  \/ logout
  \/ \E username \in TargetNames, banDuration \in BanDurationTexts :
       profile_handleBanUser(username, banDuration)
  \/ \E username \in TargetNames : profile_handleUnbanUser(username)
  \/ \E username \in TargetNames, banDuration \in BanDurationOptions :
       admin_handleBanUser(username, banDuration)
  \/ \E username \in TargetNames : admin_handleUnbanUser(username)

SpecAuth == Init /\ [][NextAuth]_vars

\* the marketplace with log-in and log-out
NextMarket ==
  \/ \E username \in LoginNames, password \in Passwords : login(username, password)
  \/ logout
  \/ \E form \in ListingForms : ProductForm_handleSubmit(form)
  \/ \E productId \in ProductIds, form \in ListingForms : handleUpdate(productId, form)
  \/ \E productId \in ProductIds : handlePurchase(productId)

SpecMarket == Init /\ [][NextMarket]_vars

\* every handler that writes the user table, with listing, purchase and report;
\* the handlers that edit or delete a listing are in SpecListing
NextStore ==
  \/ \E username \in {"admin", "carol"} : login(username, "Passw0rd")
  \/ register("carol", "Passw0rd", "")
  \/ \E newPassword \in NewPasswords : updatePassword("Passw0rd", newPassword)
  \/ \E newBio \in Bios : updateBio(newBio)
  \/ profile_handleBanUser("bob", <<"7">>)
  \/ profile_handleUnbanUser("bob")
  \/ admin_handleBanUser("bob", <<"7">>)
  \/ admin_handleUnbanUser("bob")
  \/ \E form \in EditForms : ProductForm_handleSubmit(form)
  \/ handlePurchase(1)
  \/ profile_handleReport("bob", NotAsDescribed)

SpecStore == Init /\ [][NextStore]_vars

\* the life of a listing: edit, sale, sweep, soft delete
NextListing ==
  \/ Tick
  \/ \E username \in {"admin", "alice", "bob"} : login(username, "Passw0rd")
  \/ \E productId \in ProductIds, form \in EditForms : handleUpdate(productId, form)
  \/ \E productId \in ProductIds : handleDelete(productId)
  \/ \E productId \in ProductIds : handlePurchase(productId)
  \/ cleanupPurchasedProducts

SpecListing == Init /\ [][NextListing]_vars

\* everything that writes isDeleted, the administrator acting
NextDeletion ==
  \/ Tick
  \/ login("admin", "Passw0rd")
  \/ \E form \in EditForms : handleUpdate(1, form)
  \/ handleDelete(1)
  \/ handlePurchase(1)
  \/ cleanupPurchasedProducts
  \/ product_handleReport(1, NotAsDescribed)
  \/ handleDeleteContent(1)

SpecDeletion == Init /\ [][NextDeletion]_vars

\* reports and what the administrator does with them
NextModeration ==
  \/ \E username \in {"admin", "alice"} : login(username, "Passw0rd")
  \/ \E productId \in ProductIds, reportReason \in ReportReasons :
       product_handleReport(productId, reportReason)
  \/ \E messageId \in MessageIds, reportReason \in ReportReasons :
       chat_handleReport(messageId, reportReason)
  \/ \E username \in TargetNames, reportReason \in ReportReasons :
       profile_handleReport(username, reportReason)
  \/ \E newMessage \in MessageTexts : chat_handleSubmit(newMessage)
  \/ \E id \in MessageIds : chat_handleDelete(id)
  \/ \E row \in ReportRows : handleDeleteContent(row)
  \/ \E row \in ReportRows : handleDismissReport(row)

SpecModeration == Init /\ [][NextModeration]_vars

\* a db/products.json that also lists a product whose author has no row in
\* db/users.json
OrphanProductsFixture ==
  Append(ProductsFixture,
         [id |-> 2, title |-> "kite", description |-> "red kite", price |-> 3000,
          imageUrl |-> "kite.png", author |-> "ghost", createdAt |-> toISOString(0),
          purchasedBy |-> None, purchasedAt |-> None, isDeleted |-> FALSE])

InitOrphan ==
  /\ usersData = UsersFixture
  /\ productsData = OrphanProductsFixture
  /\ reportsData = ReportsFixture
  /\ chatData = ChatFixture
  /\ uuids = 0
  /\ session = None
  /\ user = None
  /\ confirmPurchase = FALSE
  /\ now = 0
  /\ outcome = Report("init", "", "ok")

\* buying and editing when one author is missing from the user table
NextOrphan ==
  \/ Tick
  \/ \E username \in {"admin", "alice", "bob"} : login(username, "Passw0rd")
  \/ \E productId \in ProductIds, form \in EditForms : handleUpdate(productId, form)
  \/ \E productId \in ProductIds : handlePurchase(productId)

SpecOrphan == InitOrphan /\ [][NextOrphan]_vars

\* a ban that hits the user who is logged in: alice reports the
\* administrator on the profile page, and the administrator bans the
\* reported user from the dashboard's report about them
NextBanned ==
  \/ Tick
  \/ \E username \in {"admin", "alice"} : login(username, "Passw0rd")
  \/ ~isAdminOf(user) /\ profile_handleReport("admin", NotAsDescribed)
  \/ /\ \E i \in 1 .. Len(reportsData) :
          reportsData[i].type = "user" /\ reportsData[i].reportedUser = "admin"
     /\ \E banDuration \in BanDurationOptions : admin_handleBanUser("admin", banDuration)
  \/ profile_handleBanUser("bob", <<"7">>)
  \/ handlePurchase(1)
  \/ startup

SpecBanned == Init /\ [][NextBanned]_vars

(***************************************************************************)
(* Reading the tables.                                                     *)
(***************************************************************************)
\* the row of user `name`, when there is one
HasUser(users, name) == findUserIndex(users, name) # 0

UserRow(users, name) == users[findUserIndex(users, name)]

HasProduct(products, productId) == findProductIndex(products, productId) # 0

ProductRow(products, productId) == products[findProductIndex(products, productId)]

\* the balance column of the user table
Balances(users) == [i \in 1 .. Len(users) |-> users[i].balance]

\* the step is the second (confirmed) click on the purchase button of product
\* `productId`: the click that calls api.purchaseProduct
PurchaseAttempt(productId) == confirmPurchase /\ handlePurchase(productId)

(***************************************************************************)
(* C1.  A purchase attempt on a product whose purchasedBy is already set   *)
(* fails with AlreadySold and changes no balance and no purchasedBy /      *)
(* purchasedAt: the user table and the product table are left as they      *)
(* were, so a sold product is never sold again.                            *)
(***************************************************************************)
C1_AlreadySold ==
  [][\A productId \in ProductIds :
       (/\ PurchaseAttempt(productId)
        /\ HasProduct(productsData, productId)
        /\ ProductRow(productsData, productId).purchasedBy # None)
       => (/\ outcome'.kind = "AlreadySold"
           /\ Balances(usersData') = Balances(usersData)
           /\ ProductRow(productsData', productId).purchasedBy
                = ProductRow(productsData, productId).purchasedBy
           /\ ProductRow(productsData', productId).purchasedAt
                = ProductRow(productsData, productId).purchasedAt
           /\ usersData' = usersData
           /\ productsData' = productsData)]_vars

\* a purchase of a sold product has just been refused
C1_Witness ==
  /\ outcome.op = "purchase"
  /\ outcome.kind = "AlreadySold"
  /\ HasProduct(productsData, outcome.arg)
  /\ ProductRow(productsData, outcome.arg).purchasedBy # None

(***************************************************************************)
(* C2.  After a successful purchase of a product of price P by a buyer     *)
(* other than its author, the buyer's stored balance is the number that is *)
(* exactly P lower than before, the author's stored balance (when the      *)
(* author is in the user table) is the number that is exactly P higher     *)
(* than before, and the product has purchasedBy = buyer and purchasedAt    *)
(* set.                                                                    *)
(***************************************************************************)
C2_PurchaseMovesPrice ==
  [][\A productId \in ProductIds :
       (PurchaseAttempt(productId) /\ outcome'.kind = "ok")
       => LET product == ProductRow(productsData, productId)
              buyer == user[1].username
              P == product.price
          IN /\ ProductRow(productsData', productId).purchasedBy = Some(buyer)
             /\ ProductRow(productsData', productId).purchasedAt # None
             /\ buyer # product.author
                  => /\ ~isNaN(UserRow(usersData', buyer).balance)
                     /\ UserRow(usersData', buyer).balance + P
                          = UserRow(usersData, buyer).balance
                     /\ HasUser(usersData, product.author)
                          => /\ ~isNaN(UserRow(usersData', product.author).balance)
                             /\ UserRow(usersData', product.author).balance
                                  = UserRow(usersData, product.author).balance + P]_vars

\* alice (5,000,000) has bought bob's (0) lamp for 100,000
C2_Witness ==
  /\ outcome = Report("purchase", 1, "ok")
  /\ ProductRow(productsData, 1).purchasedBy = Some("alice")
  /\ ProductRow(productsData, 1).purchasedAt # None
  /\ UserRow(usersData, "alice").balance = 4900000
  /\ UserRow(usersData, "bob").balance = 100000

(***************************************************************************)
(* C3 as stated.  A purchase attempt on an existing product by a buyer     *)
(* whose stored balance is lower than the product's price fails with       *)
(* InsufficientBalance and changes no user and no product.                 *)
(***************************************************************************)
C3_AsStated ==
  [][\A productId \in ProductIds :
       (/\ PurchaseAttempt(productId)
        /\ HasProduct(productsData, productId)
        /\ HasUser(usersData, user[1].username)
        /\ Lt(UserRow(usersData, user[1].username).balance,
              ProductRow(productsData, productId).price))
       => (/\ outcome'.kind = "InsufficientBalance"
           /\ usersData' = usersData
           /\ productsData' = productsData)]_vars

(***************************************************************************)
(* C3.  A purchase attempt on a product that is not yet sold, by a buyer   *)
(* whose stored balance is lower than the product's price, fails with      *)
(* InsufficientBalance and changes nothing: no user's balance and no field *)
(* of any product is modified.                                             *)
(***************************************************************************)
C3_InsufficientBalance ==
  [][\A productId \in ProductIds :
       (/\ PurchaseAttempt(productId)
        /\ HasProduct(productsData, productId)
        /\ ProductRow(productsData, productId).purchasedBy = None
        /\ HasUser(usersData, user[1].username)
        /\ Lt(UserRow(usersData, user[1].username).balance,
              ProductRow(productsData, productId).price))
       => (/\ outcome'.kind = "InsufficientBalance"
           /\ Balances(usersData') = Balances(usersData)
           /\ usersData' = usersData
           /\ productsData' = productsData)]_vars

\* a buyer who cannot afford another user's unsold product has just been refused
C3_Witness ==
  /\ outcome.op = "purchase"
  /\ outcome.kind = "InsufficientBalance"
  /\ user # None
  /\ HasProduct(productsData, outcome.arg)
  /\ ProductRow(productsData, outcome.arg).purchasedBy = None
  /\ ProductRow(productsData, outcome.arg).author # user[1].username
  /\ HasUser(usersData, user[1].username)
  /\ UserRow(usersData, user[1].username).balance
       < ProductRow(productsData, outcome.arg).price

(***************************************************************************)
(* Reading a login step.                                                   *)
(***************************************************************************)
\* the stored user `username` is banned until after instant t
BannedAt(users, username, t) ==
  /\ HasUser(users, username)
  /\ ~UserRow(users, username).canLogin
  /\ UserRow(users, username).banExpiry # None
  /\ UserRow(users, username).banExpiry[1] > t

\* the stored user `username` has a banExpiry before instant t
BanExpiredAt(users, username, t) ==
  /\ HasUser(users, username)
  /\ UserRow(users, username).banExpiry # None
  /\ UserRow(users, username).banExpiry[1] < t

\* d is the ceiling of t half days, in days
IsCeilingInDays(d, t) == d * DAY >= t /\ (d - 1) * DAY < t

(***************************************************************************)
(* C4 as stated.  For every user with canLogin = false and banExpiry in    *)
(* the future, a login attempt (with any password) fails with Banned,      *)
(* reports the ceiling of (banExpiry - now) in days, and leaves canLogin   *)
(* false and banExpiry unchanged.                                          *)
(***************************************************************************)
C4_AsStated ==
  [][\A username \in LoginNames, password \in Passwords :
       (login(username, password) /\ BannedAt(usersData, username, now))
       => (/\ outcome'.kind = "Banned"
           /\ IsCeilingInDays(outcome'.days, UserRow(usersData, username).banExpiry[1] - now)
           /\ ~UserRow(usersData', username).canLogin
           /\ UserRow(usersData', username).banExpiry
                = UserRow(usersData, username).banExpiry)]_vars

(***************************************************************************)
(* C4.  For every user with canLogin = false and banExpiry in the future,  *)
(* a login attempt with that user's password fails with Banned, reports    *)
(* the remaining days as the ceiling of (banExpiry - now) in days, and     *)
(* leaves canLogin false and banExpiry unchanged (the whole user table is  *)
(* unchanged).                                                             *)
(***************************************************************************)
C4_Banned ==
  [][\A username \in LoginNames, password \in Passwords :
       (/\ login(username, password)
        /\ BannedAt(usersData, username, now)
        /\ UserRow(usersData, username).password = password)
       => (/\ outcome'.kind = "Banned"
           /\ IsCeilingInDays(outcome'.days, UserRow(usersData, username).banExpiry[1] - now)
           /\ ~UserRow(usersData', username).canLogin
           /\ UserRow(usersData', username).banExpiry
                = UserRow(usersData, username).banExpiry
           /\ usersData' = usersData)]_vars

\* bob, banned for 7 days at instant 0, has tried to log in one day later
\* and was told 6 days
C4_Witness ==
  /\ now = DAY
  /\ outcome.op = "login"
  /\ outcome.arg = "bob"
  /\ outcome.kind = "Banned"
  /\ outcome.days = 6
  /\ ~UserRow(usersData, "bob").canLogin
  /\ UserRow(usersData, "bob").banExpiry = Some(7 * DAY)

(***************************************************************************)
(* C5 as stated.  For a user whose banExpiry is in the past, a login       *)
(* attempt (with any password) succeeds and afterwards the stored user has *)
(* canLogin = true and no banExpiry.                                       *)
(***************************************************************************)
C5_AsStated ==
  [][\A username \in LoginNames, password \in Passwords :
       (login(username, password) /\ BanExpiredAt(usersData, username, now))
       => (/\ outcome'.kind = "ok"
           /\ UserRow(usersData', username).canLogin
           /\ UserRow(usersData', username).banExpiry = None)]_vars

(***************************************************************************)
(* C5.  For a user whose banExpiry is in the past, a login attempt with    *)
(* that user's password succeeds and afterwards the stored user has        *)
(* canLogin = true and no banExpiry; a login attempt with another password *)
(* fails with InvalidCredentials and leaves the ban fields as they were.   *)
(***************************************************************************)
C5_ExpiredBanLifted ==
  [][\A username \in LoginNames, password \in Passwords :
       (login(username, password) /\ BanExpiredAt(usersData, username, now))
       => IF UserRow(usersData, username).password = password
            THEN /\ outcome'.kind = "ok"
                 /\ UserRow(usersData', username).canLogin
                 /\ UserRow(usersData', username).banExpiry = None
            ELSE /\ outcome'.kind = "InvalidCredentials"
                 /\ usersData' = usersData]_vars

\* a user whose ban had run out has just logged in, and the ban is gone
C5_Witness ==
  /\ outcome.op = "login"
  /\ outcome.kind = "ok"
  /\ outcome.lifted
  /\ UserRow(usersData, outcome.arg).canLogin
  /\ UserRow(usersData, outcome.arg).banExpiry = None
  /\ user # None
  /\ user[1].username = outcome.arg

(***************************************************************************)
(* C6.  In every reachable state, for every stored user, canLogin = false  *)
(* implies banExpiry is set and canLogin = true implies banExpiry is       *)
(* absent; register, login, ban and unban all preserve this.               *)
(***************************************************************************)
C6_BanFieldsAgree ==
  \A i \in 1 .. Len(usersData) :
    /\ ~usersData[i].canLogin => usersData[i].banExpiry # None
    /\ usersData[i].canLogin => usersData[i].banExpiry = None

\* a user has just been banned: canLogin is false and banExpiry is set
C6_Witness ==
  /\ outcome.op \in {"ban", "adminBan"}
  /\ outcome.kind = "ok"
  /\ HasUser(usersData, outcome.arg)
  /\ ~UserRow(usersData, outcome.arg).canLogin
  /\ UserRow(usersData, outcome.arg).banExpiry # None

(***************************************************************************)
(* Reading a ban step.                                                     *)
(***************************************************************************)
\* what ban(username, days, actingAdmin) is specified to do in this step,
\* for the acting identity `user`, the target `username` and the day text
BanContract(username, banDuration) ==
  LET days == IntOrNaN(parseInt(banDuration))
      refused(kind) == /\ outcome'.kind = kind
                       /\ usersData' = usersData
                       /\ reportsData' = reportsData
  IN IF ~isAdminOf(user) THEN refused("Forbidden")
     ELSE IF isNaN(days) \/ days < 1 \/ days > 365 THEN refused("OutOfRange")
     ELSE IF ~HasUser(usersData, username) THEN refused("NotFound")
     ELSE /\ outcome'.kind = "ok"
          /\ Len(usersData') = Len(usersData)
          /\ ~UserRow(usersData', username).canLogin
          /\ UserRow(usersData', username).banExpiry = Some(now + days * DAY)
          /\ \A i \in 1 .. Len(usersData) :
               usersData[i].username # username => usersData'[i] = usersData[i]

(***************************************************************************)
(* C7.  ban(username, days, actingAdmin) fails with Forbidden unless the   *)
(* acting user is an admin, fails with OutOfRange unless 1 <= days <= 365, *)
(* and fails with NotFound if the username does not exist, in each case    *)
(* changing no stored state; otherwise it sets the target's canLogin =     *)
(* false and banExpiry = now + days.  This holds for both ban entry        *)
(* points: handleBanUser of the profile page and handleBanUser of the      *)
(* admin dashboard.                                                        *)
(***************************************************************************)
C7_BanBothEntryPoints ==
  [][\A username \in TargetNames :
       /\ \A banDuration \in BanDurationTexts :
            profile_handleBanUser(username, banDuration)
              => BanContract(username, banDuration)
       /\ \A banDuration \in BanDurationOptions :
            admin_handleBanUser(username, banDuration)
              => BanContract(username, banDuration)]_vars

\* C7, profile page only: handleBanUser of the profile page with api.banUser
\* keeps the contract
C7_ProfileEntryPoint ==
  [][\A username \in TargetNames, banDuration \in BanDurationTexts :
       profile_handleBanUser(username, banDuration)
         => BanContract(username, banDuration)]_vars

\* the admin dashboard has reported a successful ban of a user who does not exist
C7_Witness ==
  /\ outcome.op = "adminBan"
  /\ outcome.kind = "ok"
  /\ ~HasUser(usersData, outcome.arg)

(***************************************************************************)
(* C8.  Registering a username that already exists fails with              *)
(* UsernameTaken and leaves the user table unchanged, so in every          *)
(* reachable state the user table holds at most one user per username.     *)
(***************************************************************************)
C8_UsernameTaken ==
  /\ [](\A i, j \in 1 .. Len(usersData) :
          usersData[i].username = usersData[j].username => i = j)
  /\ [][\A username \in RegisterNames, password \in RegisterPasswords :
          (register(username, password, "") /\ HasUser(usersData, username))
          => (outcome'.kind = "UsernameTaken" /\ usersData' = usersData)]_vars

\* registering alice, who exists, has just been refused
C8_Witness ==
  /\ outcome = Report("register", "alice", "UsernameTaken")
  /\ Cardinality({i \in 1 .. Len(usersData) : usersData[i].username = "alice"}) = 1

(***************************************************************************)
(* C9.  A successful register appends exactly one user, with the given     *)
(* username, balance 5,000,000, canLogin = true, no banExpiry and no       *)
(* isAdmin, and does not log that user in: the current identity and the    *)
(* persisted session are the same before and after register.               *)
(***************************************************************************)
C9_RegisterAppends ==
  [][\A username \in RegisterNames, password \in RegisterPasswords :
       (register(username, password, "") /\ outcome'.kind = "ok")
       => (/\ Len(usersData') = Len(usersData) + 1
           /\ SubSeq(usersData', 1, Len(usersData)) = usersData
           /\ usersData'[Len(usersData')].username = username
           /\ usersData'[Len(usersData')].balance = 5000000
           /\ usersData'[Len(usersData')].canLogin
           /\ usersData'[Len(usersData')].banExpiry = None
           /\ usersData'[Len(usersData')].isAdmin = None
           /\ user' = user
           /\ session' = session)]_vars

\* carol has just registered while alice stays the logged-in user
C9_Witness ==
  /\ outcome = Report("register", "carol", "ok")
  /\ UserRow(usersData, "carol").balance = 5000000
  /\ user # None
  /\ user[1].username = "alice"
  /\ session # None
  /\ session[1].userId = "alice"

(***************************************************************************)
(* C10.  A successful login persists a session record {userId = the        *)
(* username, token, expiresAt = now + 7 days} and sets the current         *)
(* identity to the user's stored record without the password field; a      *)
(* failed login persists no session and leaves the current identity        *)
(* unchanged.                                                              *)
(***************************************************************************)
C10_LoginSession ==
  [][\A username \in LoginNames, password \in Passwords :
       login(username, password)
       => IF outcome'.kind = "ok"
            THEN /\ session' # None
                 /\ DOMAIN session'[1] = {"userId", "token", "expiresAt"}
                 /\ session'[1].userId = username
                 /\ session'[1].token \in Tokens
                 /\ session'[1].expiresAt = now + 7 * DAY
                 /\ user' # None
                 /\ DOMAIN user'[1] = (DOMAIN UserRow(usersData', username)) \ {"password"}
                 /\ \A f \in DOMAIN user'[1] : user'[1][f] = UserRow(usersData', username)[f]
            ELSE /\ session' = session
                 /\ user' = user]_vars

\* bob has logged in one day into the run, over alice's earlier session
C10_Witness ==
  /\ outcome.op = "login"
  /\ outcome.kind = "ok"
  /\ now > 0
  /\ session # None
  /\ session[1].userId = outcome.arg
  /\ session[1].expiresAt = now + 7 * DAY
  /\ user # None
  /\ user[1].username = outcome.arg
  /\ "password" \notin DOMAIN user[1]

(***************************************************************************)
(* C11.  restoreSession at startup: whenever restoration fails - the       *)
(* persisted session is missing, malformed (unparsable, or lacking token   *)
(* or userId), or names a user that does not exist - the persisted session *)
(* is cleared afterwards and the application has no current user.          *)
(***************************************************************************)
C11_RestoreFailureClears ==
  [][(startup /\ outcome'.kind # "ok") => (session' = None /\ user' = None)]_vars

\* C11, identity only: a failed restoration leaves no current user, and a
\* session naming a missing user is removed
C11_RestoreFailureLogsOut ==
  [][(startup /\ outcome'.kind # "ok")
       => (/\ user' = None
           /\ outcome'.kind = "NotFound" => session' = None)]_vars

\* a start with a malformed persisted session has left it in place
C11_Witness ==
  /\ outcome = Report("restore", "", "none")
  /\ session # None
  /\ user = None

\* a start with a session naming a user the fresh store lacks has removed it
C11_MissingUserWitness ==
  /\ outcome = Report("restore", "", "NotFound")
  /\ session = None
  /\ user = None

(***************************************************************************)
(* C12.  logout always succeeds from any state: it can be taken in every   *)
(* reachable state, and afterwards the persisted session is absent and the *)
(* current identity is null, while the user table and the product table    *)
(* (and the report table) are unchanged.                                   *)
(***************************************************************************)
C12_Logout ==
  /\ [](ENABLED logout)
  /\ [][logout => (/\ outcome'.kind = "ok"
                   /\ session' = None
                   /\ user' = None
                   /\ usersData' = usersData
                   /\ productsData' = productsData
                   /\ reportsData' = reportsData)]_vars

\* a logout has just ended a session, and the user registered meanwhile is
\* still in the table
C12_Witness ==
  /\ outcome.op = "logout"
  /\ session = None
  /\ user = None
  /\ HasUser(usersData, "carol")
(***************************************************************************)
(* C13.  No handler sets or clears isAdmin: whatever sequence of register, *)
(* login, password / bio update, ban / unban, listing, purchase and report *)
(* operations has run, the users with isAdmin = true are exactly the users *)
(* with isAdmin = true in the initial user table.                          *)
(***************************************************************************)
\* the names of the users with isAdmin = true
Admins(users) == {users[i].username : i \in {j \in 1 .. Len(users) : users[j].isAdmin = Some(TRUE)}}

C13_AdminsFixed == Admins(usersData) = Admins(UsersFixture)

\* carol has registered, the administrator has changed the password and
\* banned bob, the lamp has been sold and a report has been filed
C13_Witness ==
  /\ HasUser(usersData, "carol")
  /\ UserRow(usersData, "admin").password = "Wrong000"
  /\ ~UserRow(usersData, "bob").canLogin
  /\ ProductRow(productsData, 1).purchasedBy = Some("carol")
  /\ Len(reportsData) > 0
  /\ Admins(usersData) = {"admin"}

(***************************************************************************)
(* C14.  In every reachable state every user's stored balance is a number  *)
(* and is not negative.                                                    *)
(***************************************************************************)
C14_BalancesNonNegative ==
  \A i \in 1 .. Len(usersData) : ~isNaN(usersData[i].balance) /\ usersData[i].balance >= 0

\* bob, who had nothing, has sold the lamp at its listed price and every
\* balance is a number that is not negative
C14_Witness ==
  /\ outcome.op = "purchase"
  /\ outcome.kind = "ok"
  /\ ProductRow(productsData, 1).price = 100000
  /\ UserRow(usersData, "bob").balance = 100000
  /\ \A i \in 1 .. Len(usersData) : ~isNaN(usersData[i].balance) /\ usersData[i].balance >= 0

(***************************************************************************)
(* C15.  The stored balance of an existing user changes only in a step     *)
(* that is a successful purchase, and then only for the buyer and the      *)
(* seller of the product bought; register, login, password and bio update, *)
(* ban, unban, listing and report leave every existing balance as it was.  *)
(***************************************************************************)
\* the users whose stored balance the step changes
ChangedBalances ==
  {usersData[i].username :
     i \in {j \in 1 .. Len(usersData) : usersData'[j].balance # usersData[j].balance}}

SoldForMoreThanADay(p, t) == p.purchasedAt # None /\ t - p.purchasedAt[1] > DAY /\ ~p.isDeleted

C16_Sweep ==
  [][cleanupPurchasedProducts =>
       /\ Len(productsData') = Len(productsData)
       /\ \A i \in 1 .. Len(productsData) :
            productsData'[i] = IF SoldForMoreThanADay(productsData[i], now)
                                 THEN [productsData[i] EXCEPT !.isDeleted = TRUE]
                                 ELSE productsData[i]
       /\ UNCHANGED <<usersData, reportsData, chatData>>
       /\ (outcome'.kind = "updated") =
            (\E i \in 1 .. Len(productsData) : SoldForMoreThanADay(productsData[i], now))
       /\ api_cleanupPurchasedProducts(productsData', now') =
            [products |-> productsData', updated |-> FALSE]]_vars

\* a sweep has just deleted the lamp, sold more than a day before
C16_Witness ==
  /\ outcome.op = "sweep"
  /\ outcome.kind = "updated"
  /\ ProductRow(productsData, 1).isDeleted
  /\ ProductRow(productsData, 1).purchasedAt # None
  /\ now - ProductRow(productsData, 1).purchasedAt[1] > DAY

\* a sweep has just left alone the lamp, sold exactly a day before
C16_NotYetWitness ==
  /\ outcome.op = "sweep"
  /\ outcome.kind = "unchanged"
  /\ ~ProductRow(productsData, 1).isDeleted
  /\ ProductRow(productsData, 1).purchasedAt # None
  /\ now - ProductRow(productsData, 1).purchasedAt[1] = DAY

(***************************************************************************)
(* C17.  isDeleted is monotonic: a product whose isDeleted is true keeps   *)
(* its place in the table and isDeleted = true through every step (edit,   *)
(* purchase, sweep, soft delete, administrator acting on a report); and a  *)
(* soft delete of a product that is already deleted changes no table.      *)
(***************************************************************************)
C17_DeletedStaysDeleted ==
  [][/\ \A i \in 1 .. Len(productsData) :
          productsData[i].isDeleted =>
            /\ i <= Len(productsData')
            /\ productsData'[i].id = productsData[i].id
            /\ productsData'[i].isDeleted
     /\ \A productId \in ProductIds :
          (/\ handleDelete(productId)
           /\ HasProduct(productsData, productId)
           /\ ProductRow(productsData, productId).isDeleted)
          => UNCHANGED <<productsData, usersData, reportsData, chatData>>]_vars

\* the one report there has been is gone, so the administrator has acted on
\* it and deleted the lamp; after that the administrator has deleted the lamp
\* once more
C17_Witness ==
  /\ outcome.op = "delete"
  /\ outcome.kind = "ok"
  /\ uuids = 1
  /\ reportsData = << >>
  /\ ProductRow(productsData, 1).isDeleted

\* an edit, and a sale, of a product that was already deleted
C17_EditWitness ==
  outcome.op \in {"update", "purchase"} /\ outcome.kind = "ok" /\ ProductRow(productsData, 1).isDeleted

(***************************************************************************)
(* C18.  An edit or a soft delete of an existing product by a user who is  *)
(* neither its author nor an administrator in the user table fails with    *)
(* Forbidden and leaves the product table unchanged.  An edit by the       *)
(* author or an administrator succeeds, stores the title, description,     *)
(* price and imageUrl of the form in that product, and leaves its id,      *)
(* author, createdAt, purchasedBy, purchasedAt and isDeleted, and every    *)
(* other product, unchanged.                                               *)
(***************************************************************************)
\* the current user may edit or delete product `productId`
MayEdit(productId) ==
  \/ ProductRow(productsData, productId).author = user[1].username
  \/ user[1].username \in Admins(usersData)

\* the fields an edit must not touch
KeptFields == {"id", "author", "createdAt", "purchasedBy", "purchasedAt", "isDeleted"}

C18_EditAuthorization ==
  [][\A productId \in ProductIds :
       /\ \A form \in EditForms :
            (handleUpdate(productId, form) /\ HasProduct(productsData, productId)) =>
              IF ~MayEdit(productId)
                THEN outcome'.kind = "Forbidden" /\ productsData' = productsData
                ELSE /\ outcome'.kind = "ok"
                     /\ Len(productsData') = Len(productsData)
                     /\ \A i \in 1 .. Len(productsData) :
                          IF productsData[i].id = productId
                            THEN /\ DOMAIN productsData'[i] = DOMAIN productsData[i]
                                 /\ \A f \in KeptFields : productsData'[i][f] = productsData[i][f]
                                 /\ productsData'[i].title = form.title
                                 /\ productsData'[i].description = form.description
                                 /\ productsData'[i].imageUrl = form.imageUrl
                                 /\ productsData'[i].price = 7
                            ELSE productsData'[i] = productsData[i]
       /\ (/\ handleDelete(productId)
           /\ HasProduct(productsData, productId)
           /\ ~MayEdit(productId))
          => outcome'.kind = "Forbidden" /\ productsData' = productsData]_vars

\* alice, neither author nor administrator, has just been refused
C18_Witness ==
  /\ outcome.op \in {"update", "delete"}
  /\ outcome.kind = "Forbidden"
  /\ user # None
  /\ user[1].username = "alice"
  /\ ProductRow(productsData, 1).title = "lamp"
  /\ ~ProductRow(productsData, 1).isDeleted

\* the lamp, sold to alice and deleted, has just been edited
C18_EditWitness ==
  /\ outcome.op = "update"
  /\ outcome.kind = "ok"
  /\ ProductRow(productsData, 1).title = "vase"
  /\ ProductRow(productsData, 1).author = "bob"
  /\ ProductRow(productsData, 1).purchasedBy = Some("alice")
  /\ ProductRow(productsData, 1).isDeleted

(***************************************************************************)
(* C19.  A report of a product, a chat message or a user whose reason has  *)
(* fewer than 5 characters once trimmed fails with TooShort and leaves the *)
(* report table as it was; any other report appends exactly one report,    *)
(* with the trimmed reason, to the report table.                           *)
(***************************************************************************)
\* what the claim asks of a report step made with the reason typed
ReportContract(reportReason) ==
  IF Len(trim(reportReason)) < 5
    THEN outcome'.kind = "TooShort" /\ reportsData' = reportsData
    ELSE /\ outcome'.kind = "ok"
         /\ Len(reportsData') = Len(reportsData) + 1
         /\ SubSeq(reportsData', 1, Len(reportsData)) = reportsData
         /\ reportsData'[Len(reportsData')].reason = trim(reportReason)

C19_ReportTooShort ==
  [][\A reportReason \in ReportReasons :
       /\ \A productId \in ProductIds :
            product_handleReport(productId, reportReason) => ReportContract(reportReason)
       /\ \A messageId \in MessageIds :
            chat_handleReport(messageId, reportReason) => ReportContract(reportReason)
       /\ \A username \in TargetNames :
            profile_handleReport(username, reportReason) => ReportContract(reportReason)]_vars

\* the same for the chat page and the profile page only
C19_ChatAndUserReports ==
  [][\A reportReason \in ReportReasons :
       /\ \A messageId \in MessageIds :
            chat_handleReport(messageId, reportReason) => ReportContract(reportReason)
       /\ \A username \in TargetNames :
            profile_handleReport(username, reportReason) => ReportContract(reportReason)]_vars

\* "not as described" has just been accepted as the first report
C19_Witness ==
  /\ outcome.op \in {"reportProduct", "reportChat", "reportUser"}
  /\ outcome.kind = "ok"
  /\ Len(reportsData) = 1
  /\ reportsData[1].reason = NotAsDescribed

\* a reason has just been refused as too short
C19_TooShortWitness ==
  /\ outcome.op \in {"reportProduct", "reportChat", "reportUser"}
  /\ outcome.kind = "TooShort"
  /\ reportsData = << >>

\* the report table holds a report whose reason is "bad"
C19_ShortReasonStored == \E i \in 1 .. Len(reportsData) : reportsData[i].reason = Bad

(***************************************************************************)
(* C20 as stated.  When an administrator acts on a report, a chat report's *)
(* message is gone from the chat afterwards, a product report's product    *)
(* has isDeleted = true afterwards, and in every case the report table     *)
(* afterwards is the report table before without that one report.          *)
(***************************************************************************)
\* the reports other than the one with id `reportId`, in their order
OtherReports(reports, reportId) ==
  LET other(r) == r.id # reportId IN SelectSeq(reports, other)

\* the messages other than the one with id `id`, in their order
OtherMessages(messages, id) ==
  LET other(msg) == msg.id # id IN SelectSeq(messages, other)

\* the step is the administrator acting on the report in row `row`
ActOnReport(row) == isAdminOf(user) /\ handleDeleteContent(row)

C20_AsStated ==
  [][\A row \in ReportRows :
       ActOnReport(row) =>
         LET report == reportsData[row]
         IN /\ report.type = "chat" =>
                 \A i \in 1 .. Len(chatData') : chatData'[i].id # report.contentId[1]
            /\ report.type = "product" =>
                 \E i \in 1 .. Len(productsData') :
                   productsData'[i].id = report.contentId[1] /\ productsData'[i].isDeleted
            /\ reportsData' = OtherReports(reportsData, report.id)
            /\ Len(reportsData') = Len(reportsData) - 1]_vars

(***************************************************************************)
(* C20.  When an administrator acts on a report whose content is there (a  *)
(* chat report whose message is in the chat, a product report whose        *)
(* product is in the table, any user report), the message is removed from  *)
(* the chat, or the product gets isDeleted = true, nothing else in the     *)
(* chat, the product table or the user table changes, and exactly that     *)
(* report is removed from the report table.  When the content is missing,  *)
(* the step fails with NotFound and changes no table: the report stays.    *)
(***************************************************************************)
\* the message or product the report refers to is in its table
ContentPresent(report) ==
  CASE report.type = "chat" -> \E i \in 1 .. Len(chatData) : chatData[i].id = report.contentId[1]
    [] report.type = "product" -> HasProduct(productsData, report.contentId[1])
    [] OTHER -> TRUE

C20_ActOnReport ==
  [][\A row \in ReportRows :
       ActOnReport(row) =>
         LET report == reportsData[row]
         IN IF ContentPresent(report)
              THEN /\ outcome'.kind = "ok"
                   /\ reportsData' = OtherReports(reportsData, report.id)
                   /\ Len(reportsData') = Len(reportsData) - 1
                   /\ chatData' = IF report.type = "chat"
                                    THEN OtherMessages(chatData, report.contentId[1])
                                    ELSE chatData
                   /\ productsData' =
                        IF report.type = "product"
                          THEN [i \in 1 .. Len(productsData) |->
                                  IF productsData[i].id = report.contentId[1]
                                    THEN [productsData[i] EXCEPT !.isDeleted = TRUE]
                                    ELSE productsData[i]]
                          ELSE productsData
                   /\ usersData' = usersData
              ELSE /\ outcome'.kind = "NotFound"
                   /\ UNCHANGED <<reportsData, chatData, productsData, usersData>>]_vars

\* two reports were filed; the administrator has acted on one, a chat
\* report: bob's message is gone and the other report is still there
C20_Witness ==
  /\ outcome.op = "actOnReport"
  /\ outcome.arg = "chat"
  /\ outcome.kind = "ok"
  /\ uuids = 2
  /\ Len(reportsData) = 1
  /\ chatData = << >>

\* the administrator has acted on a product report: the lamp is deleted
C20_ProductWitness ==
  /\ outcome.op = "actOnReport"
  /\ outcome.arg = "product"
  /\ outcome.kind = "ok"
  /\ ProductRow(productsData, 1).isDeleted

\* the administrator has acted on a chat report whose message was gone
C20_MissingWitness ==
  /\ outcome.op = "actOnReport"
  /\ outcome.arg = "chat"
  /\ outcome.kind = "NotFound"
  /\ Len(reportsData) > 0

(***************************************************************************)
(* C21.  In every reachable state a product has purchasedBy set if and     *)
(* only if it has purchasedAt set; and once they are set, every step       *)
(* (edit, soft delete, sweep, further purchase attempts, by any user)      *)
(* leaves the product in its place with the same purchasedBy and the same  *)
(* purchasedAt.                                                            *)
(***************************************************************************)
C21_StampedOnceForGood ==
  /\ [](\A i \in 1 .. Len(productsData) :
          (productsData[i].purchasedBy # None) <=> (productsData[i].purchasedAt # None))
  /\ [][\A i \in 1 .. Len(productsData) :
          (productsData[i].purchasedBy # None \/ productsData[i].purchasedAt # None) =>
            /\ i <= Len(productsData')
            /\ productsData'[i].id = productsData[i].id
            /\ productsData'[i].purchasedBy = productsData[i].purchasedBy
            /\ productsData'[i].purchasedAt = productsData[i].purchasedAt]_vars

\* the lamp, sold to alice at the start, has since been edited and deleted,
\* and a day and a half later another user's attempt to buy it was refused
C21_Witness ==
  /\ outcome = Report("purchase", 1, "AlreadySold")
  /\ user # None
  /\ user[1].username # "alice"
  /\ now = 3
  /\ ProductRow(productsData, 1).title = "vase"
  /\ ProductRow(productsData, 1).isDeleted
  /\ ProductRow(productsData, 1).purchasedBy = Some("alice")
  /\ ProductRow(productsData, 1).purchasedAt = toISOString(0)

(***************************************************************************)
(* C22.  api.purchaseProduct is a synchronous function: the already-sold   *)
(* check, the balance check, the debit, the credit and the stamp run in    *)
(* the click's callback turn, and the .then callback (updateBalance,       *)
(* refreshUser) runs in the microtasks of that turn, before any other      *)
(* handler; a step of handlePurchase is that turn.  Under every            *)
(* interleaving of the turns of two buyers (their clicks, log-ins, edits,  *)
(* the sweep, the clock), a purchase succeeds only on a product that is    *)
(* unsold and leaves it sold to the buyer, a balance goes up only for the  *)
(* author of the product sold in that step, by its price; so the lamp is   *)
(* paid for by at most one buyer and bob is credited at most one price.    *)
(***************************************************************************)
\* what the stored balance of row i has gained since the start
Gain(i) == usersData[i].balance - UsersFixture[i].balance

\* the prices the lamp can be sold at: as listed, and as edited
LampPrices == {ProductsFixture[1].price} \cup {IntOrNaN(parseInt(form.price)) : form \in EditForms}

C22_AtMostOneSale ==
  /\ [][\A productId \in ProductIds :
          (PurchaseAttempt(productId) /\ outcome'.kind = "ok") =>
            /\ ProductRow(productsData, productId).purchasedBy = None
            /\ ProductRow(productsData', productId).purchasedBy = Some(user[1].username)
            /\ \A i \in 1 .. Len(usersData) :
                 usersData'[i].balance > usersData[i].balance =>
                   /\ usersData[i].username = ProductRow(productsData, productId).author
                   /\ usersData'[i].balance
                        = usersData[i].balance + ProductRow(productsData, productId).price]_vars
  /\ [][(\E i \in 1 .. Len(usersData) : usersData'[i].balance > usersData[i].balance) =>
          \E productId \in ProductIds : PurchaseAttempt(productId) /\ outcome'.kind = "ok"]_vars
  /\ [](IF ProductRow(productsData, 1).purchasedBy = None
          THEN \A i \in 1 .. Len(usersData) : Gain(i) = 0
          ELSE \E b, s \in 1 .. Len(usersData) :
                 /\ b # s
                 /\ ProductRow(productsData, 1).purchasedBy = Some(usersData[b].username)
                 /\ ProductRow(productsData, 1).author = usersData[s].username
                 /\ Gain(s) \in LampPrices
                 /\ Gain(b) = 0 - Gain(s)
                 /\ \A i \in 1 .. Len(usersData) : i \notin {b, s} => Gain(i) = 0)

\* alice and the administrator both clicked to buy the lamp; alice's purchase
\* went through, the administrator's was refused and cost nothing, and bob
\* has been paid once
C22_Witness ==
  /\ outcome = Report("purchase", 1, "AlreadySold")
  /\ user # None
  /\ user[1].username = "admin"
  /\ ProductRow(productsData, 1).purchasedBy = Some("alice")
  /\ UserRow(usersData, "admin").balance = StartBalance
  /\ UserRow(usersData, "alice").balance = StartBalance - 100000
  /\ UserRow(usersData, "bob").balance = 100000

(***************************************************************************)
(* C23.  No background step lifts a ban.  A stored canLogin goes from      *)
(* false to true only in a successful login of that user made when the     *)
(* banExpiry is no longer in the future, or in an unban (profile page or   *)
(* dashboard) by an administrator; those steps also clear banExpiry.  The  *)
(* passage of time changes no stored user, and no step removes or moves a  *)
(* user.                                                                   *)
(***************************************************************************)
\* the step is an unban of `username` by an administrator
UnbanByAdmin(username) ==
  /\ isAdminOf(user)
  /\ profile_handleUnbanUser(username) \/ admin_handleUnbanUser(username)

C23_NoBackgroundLift ==
  [][/\ Len(usersData') >= Len(usersData)
     /\ \A i \in 1 .. Len(usersData) :
          /\ usersData'[i].username = usersData[i].username
          /\ (~usersData[i].canLogin /\ usersData'[i].canLogin) =>
               /\ usersData'[i].banExpiry = None
               /\ \/ /\ \E password \in Passwords : login(usersData[i].username, password)
                     /\ outcome'.kind = "ok"
                     /\ usersData[i].banExpiry # None
                     /\ usersData[i].banExpiry[1] <= now
                  \/ UnbanByAdmin(usersData[i].username)
     /\ Tick => usersData' = usersData]_vars

\* bob's ban ran out a while ago; time has passed and alice has logged in
\* since, and bob's stored canLogin is still false
C23_Witness ==
  /\ outcome.op = "login"
  /\ outcome.arg = "alice"
  /\ outcome.kind = "ok"
  /\ ~UserRow(usersData, "bob").canLogin
  /\ UserRow(usersData, "bob").banExpiry # None
  /\ UserRow(usersData, "bob").banExpiry[1] < now

\* bob has logged in at the very instant the ban ran out, and it was lifted
C23_AtExpiryWitness ==
  /\ outcome.op = "login"
  /\ outcome.arg = "bob"
  /\ outcome.lifted
  /\ now = DAY
  /\ UserRow(usersData, "bob").canLogin

(***************************************************************************)
(* C24.  Every view that displays ban status compares banExpiry with the   *)
(* current time: a user whose ban has run out and who has not logged in    *)
(* since is shown as banned neither by the profile page (loaded now) nor   *)
(* by the banned-users list of the admin dashboard (mounted now by an      *)
(* administrator).                                                         *)
(***************************************************************************)
C24_ViewsCompareExpiry ==
  \A i \in 1 .. Len(usersData) :
    BanExpiredAt(usersData, usersData[i].username, now) =>
      /\ ~profile_isBanned(usersData, usersData[i].username, now)
      /\ isAdminOf(user) =>
           \A j \in 1 .. Len(dashboard_bannedUsers(usersData)) :
             dashboard_bannedUsers(usersData)[j].username # usersData[i].username

\* C24, profile page only: the page shows a user as banned exactly when the
\* user has a banExpiry later than now
C24_ProfilePageComparesExpiry ==
  \A i \in 1 .. Len(usersData) :
    profile_isBanned(usersData, usersData[i].username, now)
      <=> (usersData[i].banExpiry # None /\ usersData[i].banExpiry[1] > now)

\* bob's 1-day ban ran out half a day ago and bob has not logged in; the
\* administrator is logged in, the profile page does not show bob as banned
\* and the dashboard's list does
C24_Witness ==
  /\ now = 3
  /\ isAdminOf(user)
  /\ UserRow(usersData, "bob").banExpiry = toISOString(DAY)
  /\ ~UserRow(usersData, "bob").canLogin
  /\ ~profile_isBanned(usersData, "bob", now)
  /\ \E j \in 1 .. Len(dashboard_bannedUsers(usersData)) :
       dashboard_bannedUsers(usersData)[j].username = "bob"

(***************************************************************************)
(* C25.  When the author of an unsold product is not in the user table and *)
(* the buyer can pay, the purchase succeeds: the buyer's stored balance    *)
(* goes down by the price, the product gets purchasedBy = the buyer and    *)
(* purchasedAt = now, and no other row of the user table changes, so       *)
(* nobody is credited.                                                     *)
(***************************************************************************)
C25_MissingSeller ==
  [][\A productId \in ProductIds :
       (/\ PurchaseAttempt(productId)
        /\ HasProduct(productsData, productId)
        /\ ProductRow(productsData, productId).purchasedBy = None
        /\ ~HasUser(usersData, ProductRow(productsData, productId).author)
        /\ HasUser(usersData, user[1].username)
        /\ ~Lt(UserRow(usersData, user[1].username).balance,
               ProductRow(productsData, productId).price))
       => (/\ outcome'.kind = "ok"
           /\ ProductRow(productsData', productId).purchasedBy = Some(user[1].username)
           /\ ProductRow(productsData', productId).purchasedAt = toISOString(now)
           /\ Len(usersData') = Len(usersData)
           /\ \A i \in 1 .. Len(usersData) :
                usersData'[i] =
                  IF usersData[i].username = user[1].username
                    THEN [usersData[i] EXCEPT
                            !.balance = @ - ProductRow(productsData, productId).price]
                    ELSE usersData[i])]_vars

\* alice has bought the kite, whose author has no row in the user table:
\* alice has paid 3,000 and nobody has received it
C25_Witness ==
  /\ outcome = Report("purchase", 2, "ok")
  /\ ProductRow(productsData, 2).author = "ghost"
  /\ ~HasUser(usersData, "ghost")
  /\ ProductRow(productsData, 2).purchasedBy = Some("alice")
  /\ ProductRow(productsData, 1).purchasedBy = None
  /\ UserRow(usersData, "alice").balance = StartBalance - 3000
  /\ UserRow(usersData, "admin").balance = StartBalance
  /\ UserRow(usersData, "bob").balance = 0

(***************************************************************************)
(* C26.  Every successful purchase whose seller is in the user table       *)
(* leaves the sum of all stored balances unchanged: the sum afterwards is  *)
(* the same number as before, also when buyer and seller are one user; and *)
(* the updateBalance(buyerBalance) that follows api.purchaseProduct in the *)
(* handler does not change the sum api.purchaseProduct left.               *)
(***************************************************************************)
\* the sum of the balance column, NaN as soon as one balance is NaN
RECURSIVE SumBalancesFrom(_, _)
SumBalancesFrom(users, i) ==
  IF i > Len(users) THEN 0 ELSE Add(users[i].balance, SumBalancesFrom(users, i + 1))

SumBalances(users) == SumBalancesFrom(users, 1)

C26_SumPreserved ==
  [][\A productId \in ProductIds :
       (/\ PurchaseAttempt(productId)
        /\ outcome'.kind = "ok"
        /\ HasUser(usersData, ProductRow(productsData, productId).author)
        /\ ~isNaN(SumBalances(usersData)))
       => LET r == api_purchaseProduct(usersData, productsData, productId,
                                       user[1].username, now)
          IN /\ ~isNaN(SumBalances(r.users))
             /\ SumBalances(r.users) = SumBalances(usersData)
             /\ SumBalances(updateBalance(r.users, user, r.buyerBalance))
                  = SumBalances(r.users)
             /\ ~isNaN(SumBalances(usersData'))
             /\ SumBalances(usersData') = SumBalances(usersData)]_vars

\* C26 for products whose price is a number
C26_SumPreservedForNumberPrices ==
  [][\A productId \in ProductIds :
       (/\ PurchaseAttempt(productId)
        /\ outcome'.kind = "ok"
        /\ HasUser(usersData, ProductRow(productsData, productId).author)
        /\ ~isNaN(ProductRow(productsData, productId).price)
        /\ ~isNaN(SumBalances(usersData)))
       => LET r == api_purchaseProduct(usersData, productsData, productId,
                                       user[1].username, now)
          IN /\ ~isNaN(SumBalances(r.users))
             /\ SumBalances(r.users) = SumBalances(usersData)
             /\ SumBalances(updateBalance(r.users, user, r.buyerBalance))
                  = SumBalances(r.users)
             /\ ~isNaN(SumBalances(usersData'))
             /\ SumBalances(usersData') = SumBalances(usersData)]_vars

\* a product listed with the price text ".5e1" has just been bought from
\* another user: the price stored is NaN, and so are the balances of buyer
\* and seller and their sum
C26_Witness ==
  /\ outcome.op = "purchase"
  /\ outcome.kind = "ok"
  /\ isNaN(ProductRow(productsData, outcome.arg).price)
  /\ ProductRow(productsData, outcome.arg).purchasedBy # None
  /\ ProductRow(productsData, outcome.arg).purchasedBy[1]
       # ProductRow(productsData, outcome.arg).author
  /\ isNaN(UserRow(usersData, ProductRow(productsData, outcome.arg).author).balance)
  /\ isNaN(SumBalances(usersData))

\* a user has just bought the user's own product at a price that is a
\* number, and the sum of the balances is what it was at the start
C26_OwnProductWitness ==
  /\ outcome.op = "purchase"
  /\ outcome.kind = "ok"
  /\ ~isNaN(ProductRow(productsData, outcome.arg).price)
  /\ ProductRow(productsData, outcome.arg).purchasedBy
       = Some(ProductRow(productsData, outcome.arg).author)
  /\ SumBalances(usersData) = SumBalances(UsersFixture)

C27_LoginRefusedWitness ==
  /\ outcome.op = "login"
  /\ outcome.arg = "admin"
  /\ outcome.kind = "Banned"
  /\ user # None
  /\ user[1].username = "alice"

C29_PasswordBeforeBan ==
  [][\A username \in LoginNames, password \in Passwords :
       (/\ login(username, password)
        /\ HasUser(usersData, username)
        /\ UserRow(usersData, username).password # password)
       => (/\ outcome'.kind = "InvalidCredentials"
           /\ UserRow(usersData', username).canLogin = UserRow(usersData, username).canLogin
           /\ UserRow(usersData', username).banExpiry = UserRow(usersData, username).banExpiry
           /\ usersData' = usersData
           /\ session' = session
           /\ user' = user)]_vars

\* bob's ban has run out; a login for bob has just failed with
\* InvalidCredentials and the ban is still stored
C29_Witness ==
  /\ outcome = Report("login", "bob", "InvalidCredentials")
  /\ HasUser(usersData, "bob")
  /\ BanExpiredAt(usersData, "bob", now)
  /\ ~UserRow(usersData, "bob").canLogin

\* the same while bob's ban is in force
C29_InForceWitness ==
  /\ outcome = Report("login", "bob", "InvalidCredentials")
  /\ BannedAt(usersData, "bob", now)

(***************************************************************************)
(* C30.  purchase does not consult isDeleted.  A purchase attempt on an    *)
(* unsold product whose isDeleted is true, by a buyer who is in the user   *)
(* table and can pay, succeeds; the user table and the product table it    *)
(* leaves are those the same purchase leaves when the product is not       *)
(* deleted (the buyer's balance lower by the price, the author's higher by *)
(* the price, purchasedBy = the buyer, purchasedAt = now), except that     *)
(* isDeleted stays true.                                                   *)
(***************************************************************************)
C30_DeletedCanBeBought ==
  [][\A productId \in ProductIds :
       (/\ PurchaseAttempt(productId)
        /\ HasProduct(productsData, productId)
        /\ ProductRow(productsData, productId).isDeleted
        /\ ProductRow(productsData, productId).purchasedBy = None
        /\ HasUser(usersData, user[1].username)
        /\ ~Lt(UserRow(usersData, user[1].username).balance,
               ProductRow(productsData, productId).price))
       => LET i == findProductIndex(productsData, productId)
              product == productsData[i]
              buyer == user[1].username
              listed == api_purchaseProduct(usersData,
                                            [productsData EXCEPT ![i].isDeleted = FALSE],
                                            productId, buyer, now)
          IN /\ outcome'.kind = "ok"
             /\ listed.kind = "ok"
             /\ usersData' = listed.users
             /\ productsData' = [listed.products EXCEPT ![i].isDeleted = TRUE]
             /\ productsData'[i].isDeleted
             /\ productsData'[i].purchasedBy = Some(buyer)
             /\ productsData'[i].purchasedAt = toISOString(now)
             /\ buyer # product.author =>
                  /\ UserRow(usersData', buyer).balance
                       = UserRow(usersData, buyer).balance - product.price
                  /\ UserRow(usersData', product.author).balance
                       = UserRow(usersData, product.author).balance + product.price]_vars

\* the lamp was deleted while unsold, and alice has just bought it at its
\* listed price: alice has paid, bob has been paid, and the lamp is still
\* deleted
C30_Witness ==
  /\ outcome = Report("purchase", 1, "ok")
  /\ ProductRow(productsData, 1).isDeleted
  /\ ProductRow(productsData, 1).price = 100000
  /\ ProductRow(productsData, 1).purchasedBy = Some("alice")
  /\ ProductRow(productsData, 1).purchasedAt = toISOString(now)
  /\ UserRow(usersData, "alice").balance = StartBalance - 100000
  /\ UserRow(usersData, "bob").balance = 100000

====
